---- MODULE Spec2Model ----
(***************************************************************************)
(* Multi-provider transcription pipeline of the voice agent.               *)
(*                                                                         *)
(*   transcribe               src/unnamed/part_000  (fast tier Groq,       *)
(*                            general tier Gemini with retry/backoff,      *)
(*                            local tier Whisper, final cleanup)           *)
(*   handleGeminiTranscription src/server.js        (HTTP handler with its *)
(*                            own Gemini retry loop)                       *)
(*   analyzeAudioQuality, calculateConfidence, applyCorrections,           *)
(*   validateAudio            src/audio-processor.js                       *)
(*                                                                         *)
(* Numbers.  Confidences are exact decimals scaled to integers: Pct(n) is  *)
(* n/100.  One hundredth is HUNDREDTH units, chosen so that                *)
(* zeroCount/sampleSize * 0.3 is an integer for every sample size used.    *)
(* Durations are kept in 1/3000 s (the divisor of the size heuristic).     *)
(* NaN (0 / 0 on an empty buffer) is a value of its own outside the range. *)
(*                                                                         *)
(* Text.  A text is a sequence of tokens: words, brackets and whitespace   *)
(* runs (" " is one space, "  " any other whitespace run).  Words are      *)
(* maximal, so a regex word boundary is a token boundary.  Undefined is    *)
(* the JavaScript undefined a provider body may leave for data.text.       *)
(***************************************************************************)
EXTENDS Integers, Sequences, FiniteSets, TLC

\* ------------------------------------------------------------------ bounds
\* Confidence thresholds the environment may configure (hundredths).
Thresholds == {60, 99}

\* ------------------------------------------------------- program constants
maxRetries == 3
retryDelayBase == 1000
retryDelayCap == 8000
MAX_RETRIES == 3
RETRY_DELAY_BASE == 1000
RETRY_DELAY_MAX == 8000
MIN_AUDIO_SIZE == 1000
MAX_AUDIO_SIZE == 10485760
GEMINI_AUDIO_LIMIT == 8000000
MaxSampleSize == 2048
HUNDREDTH == 125 * 2048

Pct(n) == n * HUNDREDTH

\* JavaScript undefined for a text, null for `result`, null for `lastError`
Undefined == <<"<undefined>">>
NoResult == [present |-> FALSE]
NoError == "null"
\* error.type of an exception that carries no type (TypeError of fetch, ...)
NoType == "undefined"

Min(a, b) == IF a <= b THEN a ELSE b
Max(a, b) == IF a >= b THEN a ELSE b

\* Buffer.prototype.slice(0, n).length
SliceLength(size, n) == Min(size, n)

RECURSIVE Pow2(_)
Pow2(n) == IF n = 0 THEN 1 ELSE 2 * Pow2(n - 1)

\* --------------------------------------------------------------------- text
Whitespace == {" ", "  "}
EdgePunct == {",", "."}

Lower(tok) ==
    CASE tok = "SILENCE" -> "silence"
      [] tok = "No" -> "no"
      [] tok = "Uh" -> "uh"
      [] OTHER -> tok

RECURSIVE DropLeading(_, _)
DropLeading(s, set) ==
    IF s # <<>> /\ Head(s) \in set THEN DropLeading(Tail(s), set) ELSE s

RECURSIVE DropTrailing(_, _)
DropTrailing(s, set) ==
    IF s # <<>> /\ s[Len(s)] \in set
    THEN DropTrailing(SubSeq(s, 1, Len(s) - 1), set)
    ELSE s

\* String.prototype.trim
Trim(s) == DropTrailing(DropLeading(s, Whitespace), Whitespace)

\* s.replace(/\s+/g, ' '): every whitespace run becomes one space
RECURSIVE CollapseSpaces(_)
CollapseSpaces(s) ==
    IF s = <<>> THEN <<>>
    ELSE IF Head(s) \in Whitespace
         THEN <<" ">> \o CollapseSpaces(DropLeading(s, Whitespace))
         ELSE <<Head(s)>> \o CollapseSpaces(Tail(s))

\* s.split(/\s+/).length: one more than the number of whitespace runs
RECURSIVE SplitCount(_)
SplitCount(s) ==
    IF s = <<>> THEN 1
    ELSE IF Head(s) \in Whitespace
         THEN 1 + SplitCount(DropLeading(s, Whitespace))
         ELSE SplitCount(Tail(s))

\* Sample transcripts a provider may answer with (bound on the inputs).
T_empty == <<>>
T_speech == <<"hello", " ", "world">>
T_filler == <<"Uh">>
T_noSpeech == <<"[", "no", " ", "speech", " ", "detected", "]">>
T_silence == <<"[", "  ", "SILENCE", "]">>
T_eye == <<"eye", "  ", "tools">>
T_blank == <<"  ">>
T_likes == <<"like", " ", "like", " ", "like">>
T_likeUhLike == <<"like", " ", "Uh", " ", "like">>
T_eyeUhTools == <<"eye", " ", "Uh", " ", "tools">>
T_sortUhOf == <<"it", " ", "sort", " ", "Uh", " ", "of", " ", "works">>
T_fashion == <<"the", " ", "quick", " ", "brown", " ", "eye", " ", "tools",
               " ", "for", " ", "fashion">>
T_long == <<"hello", " ", "world", " ", "hello", " ", "world", " ",
            "hello", " ", "world", " ", "hello", " ", "world">>

\* /\beye\s+(tools?|for|in|to|and)\b/gi -> 'AI $1'
RECURSIVE FixEye(_)
FixEye(s) ==
    IF s = <<>> THEN <<>>
    ELSE IF /\ Len(s) >= 3
            /\ Lower(s[1]) = "eye"
            /\ s[2] \in Whitespace
            /\ Lower(s[3]) \in {"tools", "tool", "for", "in", "to", "and"}
         THEN <<"AI", " ", s[3]>> \o FixEye(SubSeq(s, 4, Len(s)))
         ELSE <<Head(s)>> \o FixEye(Tail(s))

\* /\buh\b/gi -> ''
RemoveFiller(s) == SelectSeq(s, LAMBDA tok : Lower(tok) # "uh")

\* s.replace(/\bFIRST\s+SECOND\b/gi, replacement): the matches are taken
\* from left to right and do not overlap; the search goes on behind a match
RECURSIVE ReplacePair(_, _, _, _)
ReplacePair(s, first, second, replacement) ==
    IF s = <<>> THEN <<>>
    ELSE LET rest == DropLeading(Tail(s), Whitespace) IN
         IF /\ Lower(Head(s)) = first
            /\ Len(rest) < Len(Tail(s))
            /\ rest # <<>>
            /\ Lower(Head(rest)) = second
         THEN replacement
              \o ReplacePair(Tail(rest), first, second, replacement)
         ELSE <<Head(s)>>
              \o ReplacePair(Tail(s), first, second, replacement)

\* /\blike\s+like\b/gi -> 'like'
CollapseLike(s) == ReplacePair(s, "like", "like", <<"like">>)

\* /\bsort\s+of\b/gi -> ''
RemoveSortOf(s) == ReplacePair(s, "sort", "of", <<>>)

\* applyCorrections.  The rule list is applied in source order; the rules
\* kept are those whose pattern can match a text over the tokens of the
\* sample transcripts, every other rule is the identity on them.
applyCorrections(text) ==
    IF text = Undefined \/ text = <<>> THEN text
    ELSE LET ruled == RemoveSortOf(CollapseLike(RemoveFiller(FixEye(text))))
             spaced == Trim(CollapseSpaces(ruled))
         IN DropTrailing(DropLeading(spaced, EdgePunct \cup Whitespace),
                         EdgePunct \cup Whitespace)

LowerSeq(s) == [i \in 1..Len(s) |-> Lower(s[i])]

\* ^\[\s*PHRASE\s*\]$ with flag i
MatchesBracketed(s, phrase) ==
    /\ Len(s) >= 2
    /\ s[1] = "["
    /\ s[Len(s)] = "]"
    /\ LowerSeq(Trim(SubSeq(s, 2, Len(s) - 1))) = phrase

\* result.text.replace(<no speech>, '').replace(<silence>, '').trim()
CleanupText(s) ==
    LET a == IF MatchesBracketed(s, <<"no", " ", "speech", " ", "detected">>)
             THEN <<>> ELSE s
        b == IF MatchesBracketed(a, <<"silence">>) THEN <<>> ELSE a
    IN Trim(b)

\* Truthiness of a JavaScript string value
Truthy(text) == text # Undefined /\ text # <<>>

\* ------------------------------------------------------------ audio quality
\* A buffer is described by its size and by what the analyser's sampling
\* sees of it: the number of zero bytes among the sampled positions and the
\* standard deviation of the sampled bytes.
sampleSizeOf(buffer) == Min(buffer.size, MaxSampleSize)

\* The IEEE not-a-number that 0 / 0 yields for an empty buffer: a value
\* outside the range of every number computed here.  Every comparison with
\* it is false and every sum with it is NaN again.
NaN == 0 - Pct(1000)
IsNaN(x) == x = NaN
Lt(a, b) == ~IsNaN(a) /\ ~IsNaN(b) /\ a < b
Gt(a, b) == ~IsNaN(a) /\ ~IsNaN(b) /\ a > b
Ge(a, b) == ~IsNaN(a) /\ ~IsNaN(b) /\ a >= b
Plus(a, b) == IF IsNaN(a) \/ IsNaN(b) THEN NaN ELSE a + b

analyzeAudioQuality(buffer) ==
    LET sampleSize == sampleSizeOf(buffer)
        zeroRatio == IF sampleSize = 0 THEN NaN
                     ELSE buffer.sampledZeros * (Pct(100) \div sampleSize)
    IN [ zeroRatio |-> zeroRatio,
         isMostlySilence |-> Gt(zeroRatio, Pct(95)),
         size |-> buffer.size,
         estimatedDuration |->
             IF buffer.size > 1000 THEN Max(1500, buffer.size - 500) ELSE 0,
         entropy |-> IF sampleSize = 0 THEN NaN ELSE buffer.stddev,
         quality |-> IF Lt(zeroRatio, Pct(2)) THEN "good"
                     ELSE IF Lt(zeroRatio, Pct(50)) THEN "fair" ELSE "poor" ]

\* variant: the tiers the wrong way round
tierBonus_inverted(tier) ==
    IF tier = "good" THEN 0 - Pct(20)
    ELSE IF tier = "fair" THEN Pct(10) ELSE Pct(20)

\* if (quality.quality === 'good') confidence += 0.2; else if ('fair')
\* confidence += 0.1; else confidence -= 0.2
tierBonus(tier) ==
    IF tier = "good" THEN Pct(20)
    ELSE IF tier = "fair" THEN Pct(10) ELSE 0 - Pct(20)

\* variant: a high entropy earns nothing
entropyBonus_none(entropy) ==
    IF Lt(entropy, 10) THEN 0 - Pct(20) ELSE 0

\* if (quality.entropy > 30) confidence += 0.1;
\* else if (quality.entropy < 10) confidence -= 0.2
entropyBonus(entropy) ==
    IF Gt(entropy, 30) THEN Pct(10)
    ELSE IF Lt(entropy, 10) THEN 0 - Pct(20) ELSE 0

\* calculateConfidence(quality, transcript, duration); duration in 1/3000 s
calculateConfidence(quality, transcript, duration) ==
    LET c1 == Pct(50) + tierBonus(quality.quality)
        c2 == IF IsNaN(quality.zeroRatio) THEN NaN
              ELSE c1 - (quality.zeroRatio * 3) \div 10
        c3 == Plus(c2, entropyBonus(quality.entropy))
        words == SplitCount(Trim(transcript))
        \* wordsPerSecond = duration > 0 ? words / duration : 0
        inTypical == duration > 0 /\ words * 3000 >= duration
                                  /\ words * 3000 <= 6 * duration
        outside == duration <= 0 \/ words * 3000 > 8 * duration
                                 \/ words * 6000 < duration
        c4 == IF ~Truthy(transcript) THEN Pct(5)
              ELSE IF words < 1 THEN Pct(10)
              ELSE IF inTypical THEN Plus(c3, Pct(10))
              ELSE IF outside THEN Plus(c3, 0 - Pct(15))
              ELSE c3
    \* Math.max(0, Math.min(1, confidence)): NaN stays NaN
    IN IF IsNaN(c4) THEN NaN ELSE Max(0, Min(Pct(100), c4))

\* ---------------------------------------------------------------- inputs
\* Buffers (bound on the inputs).  B_clear: 3500 bytes, about 1 s, nearly no
\* zero bytes.  B_long: 50000 bytes, about 16.5 s, a quarter zeros.
\* B_silent: all sampled bytes zero.  B_faint: 96% zeros, the rest loud.
\* B_noisy: 60% zeros.  B_none, B_tiny, B_big, B_huge: the sizes the gates
\* of the HTTP handler tell apart.
\* prefixZeros counts the zero bytes among the first min(size, 1024) bytes,
\* which is what the analyser of server.js looks at.
B_clear == [size |-> 3500, sampledZeros |-> 20, stddev |-> 40,
            prefixZeros |-> 10]
B_long == [size |-> 50000, sampledZeros |-> 512, stddev |-> 40,
           prefixZeros |-> 256]
B_silent == [size |-> 50000, sampledZeros |-> 2048, stddev |-> 0,
             prefixZeros |-> 1024]
B_faint == [size |-> 2000, sampledZeros |-> 1920, stddev |-> 40,
            prefixZeros |-> 983]
B_noisy == [size |-> 2000, sampledZeros |-> 1200, stddev |-> 20,
            prefixZeros |-> 600]
B_none == [size |-> 0, sampledZeros |-> 0, stddev |-> 0, prefixZeros |-> 0]
B_tiny == [size |-> 500, sampledZeros |-> 500, stddev |-> 0,
           prefixZeros |-> 500]
B_big == [size |-> 9000000, sampledZeros |-> 20, stddev |-> 40,
          prefixZeros |-> 10]
B_huge == [size |-> 11000000, sampledZeros |-> 20, stddev |-> 40,
           prefixZeros |-> 10]
Buffers == {B_clear, B_long, B_faint, B_noisy, B_none}

\* The round-trip scenario: 50 KB of WebM audio with 1% zero bytes, for
\* which the general tier hears T_fashion.  B_webm: bytes spread over the
\* whole range.  B_webmFlat: bytes confined to a narrow range.
B_webm == [size |-> 51200, sampledZeros |-> 20, stddev |-> 40,
           prefixZeros |-> 10]
B_webmFlat == [size |-> 51200, sampledZeros |-> 20, stddev |-> 20,
               prefixZeros |-> 10]
ScenarioBuffers == {B_webm, B_webmFlat}
HandlerBuffers == {B_none, B_tiny, B_clear, B_silent, B_faint, B_big, B_huge}

HttpStatuses == {400, 401, 403, 404, 429, 503}

\* What the Groq endpoint may answer
GroqTexts == {Undefined, T_filler, T_speech, T_silence}
GroqResponses ==
    {[kind |-> "text", text |-> t, status |-> 200] : t \in GroqTexts}
    \cup {[kind |-> "http", text |-> T_empty, status |-> 503]}

\* How one run of the whisper executable may end
WhisperTexts == {T_speech, T_long}
WhisperResponses ==
    {[kind |-> "text", text |-> t] : t \in WhisperTexts \cup {T_empty}}
    \cup {[kind |-> k, text |-> T_empty] : k \in {"timeout"}}

\* -------------------------------------------------------- provider adapters
Ok(text) == [ok |-> TRUE, text |-> text, type |-> NoError]
Err(type) == [ok |-> FALSE, text |-> T_empty, type |-> type]

\* The prompt transcribeWithGemini sends for the given options
geminiPrompt(opt_attempt, useFallbackPrompt) ==
    IF useFallbackPrompt \/ opt_attempt > 2 THEN "fallback" ELSE "standard"

\* The promptType transcribeWithGemini reports in its result
geminiPromptType(useFallbackPrompt) ==
    IF useFallbackPrompt THEN "fallback" ELSE "standard"

\* transcribeWithGemini: outcome for a configured key and endpoint answer
transcribeWithGemini(hasKey, resp) ==
    IF ~hasKey THEN Err("CONFIG_ERROR")
    ELSE IF resp.kind = "abort" THEN Err("TIMEOUT")
    ELSE IF resp.kind = "network" THEN Err(NoType)
    ELSE IF resp.kind = "http"
         THEN Err(IF resp.status = 429 THEN "RATE_LIMIT"
                  ELSE IF resp.status >= 500 THEN "SERVICE_ERROR"
                  ELSE "API_ERROR")
    ELSE IF resp.kind = "safety" THEN Err("CONTENT_BLOCKED")
    ELSE Ok(Trim(resp.text))

\* transcribeWithGroq (only called with a configured key)
transcribeWithGroq(resp) ==
    IF resp.kind = "http" THEN Err("API_ERROR")
    ELSE IF resp.kind = "abort" THEN Err("TIMEOUT")
    ELSE IF resp.kind = "network" THEN Err(NoType)
    ELSE Ok(resp.text)

\* transcribeWithLocalWhisper (only called when WHISPER_AVAILABLE)
transcribeWithLocalWhisper(resp) ==
    IF resp.kind = "timeout" THEN Err("TIMEOUT")
    ELSE IF resp.kind = "exit1" THEN Err("WHISPER_ERROR")
    ELSE IF ~Truthy(Trim(resp.text)) THEN Err("WHISPER_EMPTY")
    ELSE Ok(Trim(resp.text))

\* -------------------------------------------------------------------- state
VARIABLES
    entry,              \* which entry point this run exercises
    CONFIG,             \* groqApiKey, geminiApiKey (set or not),
                        \* useWhisperFallback, confidenceThreshold
    WHISPER_AVAILABLE,  \* result of the load-time probe
    audioBuffer,        \* the request's audio
    pc,                 \* position of the run
    attempt,            \* loop variable of the Gemini retry loop
    result,             \* `result` of transcribe
    lastError,          \* `lastError` (error kind, NoError when null)
    attempts,           \* `attempts` log of transcribe
    calls,              \* provider invocations, in the order they were made
                        \* (sent: the request went out to the provider,
                        \* bytes: length of the audio handed over)
    sleeps,             \* backoff delays slept, in order (ms)
    thrown,             \* kind of the error the run raised
    whisperConfidence,  \* `whisperConfidence` of the local tier (0: not set)
    transcriptionResult,\* `transcriptionResult` of the HTTP handler
    lastStatusCode,     \* statusCode of the handler's `lastError`
    lastRetryable,      \* retryable flag of the handler's `lastError`
    response,           \* the HTTP response the handler has sent
    requestAborted,     \* `requestAborted` of the handler (req 'close' seen)
    heardText,          \* history: some provider has answered non-empty text
    validation,         \* what validateAudio returned (NoResult: not called)
    FFMPEG_AVAILABLE,   \* result of the load-time probe for ffmpeg
    now,                \* Date.now(), in milliseconds
    jobs,               \* the calls of preprocessAudio and of
                        \* transcribeWithLocalWhisper in flight, per request
    files,              \* the files under the two temporary directories
    applied,            \* a helper called on its own: arguments and result
    AppState,           \* `AppState` of the browser client
    recorders,          \* state of every MediaRecorder created so far
    micHeld,            \* the mic button is down (pressed, not yet released)
    pendingStarts,      \* calls of startListening suspended at
                        \* `await getUserMedia`
    pendingPreInit,     \* calls of preInitializeMicrophone suspended at
                        \* `await getUserMedia`
    timers,             \* setTimeout callbacks of stopListening not yet run
    presses             \* presses of the mic button so far

vars == <<entry, CONFIG, WHISPER_AVAILABLE, audioBuffer, pc, attempt, result,
          lastError, attempts, calls, sleeps, thrown, whisperConfidence,
          transcriptionResult, lastStatusCode, lastRetryable, response,
          requestAborted,
          heardText, validation, FFMPEG_AVAILABLE, now, jobs, files,
          applied, AppState, recorders, micHeld, pendingStarts,
          pendingPreInit, timers, presses>>

clientVars == <<AppState, recorders, micHeld, pendingStarts, pendingPreInit,
                timers, presses>>

\* const AppState = { isListening: false, isProcessing: false, ... }
\* (mediaRecorder: 0 is null, else the index of the recorder in `recorders`;
\* audioContext, preInitializedStream: set or null)
InitialAppState ==
    [isListening |-> FALSE, isProcessing |-> FALSE, audioContext |-> FALSE,
     mediaRecorder |-> 0, preInitializedStream |-> FALSE]

\* the page of the browser client is not open
ClientIdle ==
    /\ AppState = InitialAppState
    /\ recorders = <<>>
    /\ micHeld = FALSE
    /\ pendingStarts = 0
    /\ pendingPreInit = 0
    /\ timers = 0
    /\ presses = 0

handlerVars == <<transcriptionResult, lastStatusCode, lastRetryable,
                 response>>

\* what only the calls of the tools and of the helpers touch
toolVars == <<FFMPEG_AVAILABLE, now, jobs, files, applied>>

\* what no step of the tiers before the local one touches
idle == <<entry, CONFIG, WHISPER_AVAILABLE, audioBuffer, transcriptionResult,
          lastStatusCode, lastRetryable, response, whisperConfidence,
          requestAborted,
          validation, toolVars, clientVars>>

NoResponse == [sent |-> FALSE]

inputs == <<entry, CONFIG, WHISPER_AVAILABLE, audioBuffer, requestAborted,
            validation, toolVars, clientVars>>

\* no tool and no helper has been called
ToolsIdle ==
    /\ FFMPEG_AVAILABLE = FALSE
    /\ now = 0
    /\ jobs = <<>>
    /\ files = {}
    /\ applied = NoResult

quality == analyzeAudioQuality(audioBuffer)

\* What the Gemini endpoint may answer to one request: it hears T_fashion
\* in the audio of the round-trip scenario
GeminiTexts ==
    IF audioBuffer \in ScenarioBuffers THEN {T_fashion}
    ELSE {T_empty, T_speech, T_filler, T_noSpeech}
GeminiResponses ==
    {[kind |-> "text", text |-> t, status |-> 200] : t \in GeminiTexts}
    \cup {[kind |-> "http", text |-> T_empty, status |-> st] :
              st \in HttpStatuses}
    \cup {[kind |-> k, text |-> T_empty, status |-> 200] :
              k \in {"safety", "network"}}
    \cup {[kind |-> "abort", text |-> T_empty, status |-> 0]}

threshold == Pct(CONFIG.confidenceThreshold)

\* quality.estimatedDuration || 1
durationOr1 == IF quality.estimatedDuration = 0 THEN 3000
               ELSE quality.estimatedDuration

Configs ==
    [ groqApiKey : BOOLEAN, geminiApiKey : BOOLEAN,
      useWhisperFallback : BOOLEAN, confidenceThreshold : Thresholds ]

InitTranscribe ==
    /\ entry = "transcribe"
    /\ CONFIG \in Configs
    /\ WHISPER_AVAILABLE \in BOOLEAN
    /\ audioBuffer \in Buffers
    /\ pc = "start"
    /\ attempt = 1
    /\ result = NoResult
    /\ lastError = NoError
    /\ attempts = <<>>
    /\ calls = <<>>
    /\ sleeps = <<>>
    /\ thrown = NoError
    /\ whisperConfidence = 0
    /\ transcriptionResult = NoResult
    /\ lastStatusCode = 0
    /\ lastRetryable = FALSE
    /\ response = NoResponse
    /\ requestAborted = FALSE
    /\ heardText = FALSE
    /\ validation = NoResult
    /\ ToolsIdle
    /\ ClientIdle

InitScenario ==
    /\ entry = "transcribe"
    /\ CONFIG \in Configs
    /\ WHISPER_AVAILABLE \in BOOLEAN
    /\ audioBuffer \in ScenarioBuffers
    /\ pc = "start"
    /\ attempt = 1
    /\ result = NoResult
    /\ lastError = NoError
    /\ attempts = <<>>
    /\ calls = <<>>
    /\ sleeps = <<>>
    /\ thrown = NoError
    /\ whisperConfidence = 0
    /\ transcriptionResult = NoResult
    /\ lastStatusCode = 0
    /\ lastRetryable = FALSE
    /\ response = NoResponse
    /\ requestAborted = FALSE
    /\ heardText = FALSE
    /\ validation = NoResult
    /\ ToolsIdle
    /\ ClientIdle

\* ------------------------------------------------------ transcribe, fast tier
\* if (CONFIG.groqApiKey) { ... }
Start ==
    /\ entry = "transcribe" /\ pc = "start"
    /\ pc' = IF CONFIG.groqApiKey THEN "groq" ELSE "gemini"
    /\ UNCHANGED <<idle, attempt, result, lastError, attempts, calls,
                   sleeps, thrown, heardText>>

GroqCall ==
    /\ pc = "groq"
    /\ calls' = Append(calls, [provider |-> "groq", attempt |-> 1,
                               prompt |-> "standard", sent |-> TRUE,
                               bytes |-> audioBuffer.size])
    /\ pc' = "groq_wait"
    /\ UNCHANGED <<idle, attempt, result, lastError, attempts, sleeps,
                   thrown, heardText>>

groqResultOf(groqText) ==
    [ present |-> TRUE,
      text |-> applyCorrections(groqText),
      rawText |-> groqText,
      confidence |-> Pct(95),
      method |-> "groq-whisper",
      attempts |-> [count |-> 1],
      fallback |-> FALSE,
      noSpeech |-> FALSE ]

\* variant: the fast tier's result is accepted only at the threshold
afterGroq_thresholded(res) ==
    IF Truthy(res.text) /\ res.confidence >= threshold THEN "returned"
    ELSE "gemini"

\* if (result.text) return result;
afterGroq(res) == IF Truthy(res.text) THEN "returned" ELSE "gemini"

GroqSettle ==
    /\ pc = "groq_wait"
    /\ \E resp \in GroqResponses :
        LET r == transcribeWithGroq(resp) IN
        IF r.ok
        THEN /\ result' = groqResultOf(r.text)
             /\ heardText' = (heardText \/ Truthy(r.text))
             /\ attempts' = Append(attempts,
                    [method |-> "groq", attempt |-> 1, success |-> TRUE,
                     confidence |-> Pct(95), error |-> NoError,
                     promptType |-> "none"])
             /\ pc' = afterGroq(result')
             /\ UNCHANGED lastError
        ELSE /\ lastError' = r.type
             /\ attempts' = Append(attempts,
                    [method |-> "groq", attempt |-> 1, success |-> FALSE,
                     confidence |-> 0, error |-> r.type,
                     promptType |-> "none"])
             /\ pc' = "gemini"
             /\ UNCHANGED <<result, heardText>>
    /\ UNCHANGED <<idle, attempt, calls, sleeps, thrown>>

\* --------------------------------------------------- transcribe, general tier
\* variant: a flat delay, no doubling
RetryDelay_flat(k) == Min(retryDelayBase, retryDelayCap)

\* Math.min(CONFIG.retryDelayBase * Math.pow(2, attempt - 1), 8000)
RetryDelay(k) == Min(retryDelayBase * Pow2(k - 1), retryDelayCap)

\* variant: the fallback prompt only from the third attempt on
useFallbackPromptAt_third(k) == k > 2

\* const useFallbackPrompt = attempt > 1
useFallbackPromptAt(k) == k > 1

\* variant: a blocked content is retried like any other failure
transcribeNoRetry_retryBlocked == {"INVALID_REQUEST", "CONFIG_ERROR"}

\* error kinds on which the loop of transcribe breaks
transcribeNoRetry == {"INVALID_REQUEST", "CONFIG_ERROR", "CONTENT_BLOCKED"}

\* for (attempt = 1; attempt <= maxRetries; ...) transcribeWithGemini(...)
GeminiCall ==
    /\ pc = "gemini"
    /\ attempt <= maxRetries
    /\ calls' = Append(calls,
          [provider |-> "gemini", attempt |-> attempt,
           prompt |-> geminiPrompt(attempt, useFallbackPromptAt(attempt)),
           sent |-> CONFIG.geminiApiKey, bytes |-> audioBuffer.size])
    /\ pc' = "gemini_wait"
    /\ UNCHANGED <<idle, attempt, result, lastError, attempts, sleeps,
                   thrown, heardText>>

\* variant: no early return, every attempt of the loop is made
afterGeminiSuccess_exhaust(confidence, k) ==
    IF k < maxRetries THEN "sleep" ELSE "whisper_gate"

\* if (confidence >= CONFIG.confidenceThreshold) return result;
\* otherwise sleep before the next attempt, or leave the loop after the last
afterGeminiSuccess(confidence, k) ==
    IF Ge(confidence, threshold) THEN "returned"
    ELSE IF k < maxRetries THEN "sleep" ELSE "whisper_gate"

\* variant: a failed attempt is never retried
afterGeminiFailure_giveUp(type, k) == "whisper_gate"

\* break on the kinds that are not retried, otherwise as above
afterGeminiFailure(type, k) ==
    IF type \in transcribeNoRetry THEN "whisper_gate"
    ELSE IF k < maxRetries THEN "sleep" ELSE "whisper_gate"

\* variant: the text is handed on as the provider gave it
geminiResultOf_uncorrected(geminiText, confidence, k) ==
    [ present |-> TRUE,
      text |-> geminiText,
      rawText |-> geminiText,
      confidence |-> confidence,
      method |-> "gemini",
      attempts |-> [count |-> k],
      fallback |-> FALSE,
      noSpeech |-> FALSE ]

geminiResultOf(geminiText, confidence, k) ==
    [ present |-> TRUE,
      text |-> applyCorrections(geminiText),
      rawText |-> geminiText,
      confidence |-> confidence,
      method |-> "gemini",
      attempts |-> [count |-> k],
      fallback |-> FALSE,
      noSpeech |-> FALSE ]

GeminiSettle ==
    /\ pc = "gemini_wait"
    /\ \E resp \in GeminiResponses :
        LET r == transcribeWithGemini(CONFIG.geminiApiKey, resp)
            confidence == calculateConfidence(quality, r.text, durationOr1)
        IN
        IF r.ok
        THEN /\ result' = geminiResultOf(r.text, confidence, attempt)
             /\ heardText' = (heardText \/ Truthy(r.text))
             /\ attempts' = Append(attempts,
                    [method |-> "gemini", attempt |-> attempt,
                     success |-> TRUE, confidence |-> confidence,
                     error |-> NoError,
                     promptType |->
                        geminiPromptType(useFallbackPromptAt(attempt))])
             /\ UNCHANGED lastError
             /\ pc' = afterGeminiSuccess(confidence, attempt)
        ELSE /\ lastError' = r.type
             /\ attempts' = Append(attempts,
                    [method |-> "gemini", attempt |-> attempt,
                     success |-> FALSE, confidence |-> 0,
                     error |-> r.type, promptType |-> "none"])
             /\ UNCHANGED <<result, heardText>>
             /\ pc' = afterGeminiFailure(r.type, attempt)
    /\ UNCHANGED <<idle, attempt, calls,
                   sleeps, thrown>>

\* variant: after the sleep the run goes through the fast tier again
BackoffSleep_viaFastTier ==
    /\ entry = "transcribe" /\ pc = "sleep"
    /\ sleeps' = Append(sleeps, RetryDelay(attempt))
    /\ attempt' = attempt + 1
    /\ pc' = "groq"
    /\ UNCHANGED <<idle, result, lastError, attempts, calls,
                   thrown, heardText>>

\* await sleep(delay), then the loop's attempt++ (attempt < maxRetries here)
BackoffSleep ==
    /\ entry = "transcribe" /\ pc = "sleep"
    /\ sleeps' = Append(sleeps, RetryDelay(attempt))
    /\ attempt' = attempt + 1
    /\ pc' = "gemini"
    /\ UNCHANGED <<idle, result, lastError, attempts, calls,
                   thrown, heardText>>

\* ----------------------------------------------------- transcribe, local tier
\* variant: the executable's availability is not looked at
whisperGateOpen_anyHost ==
    /\ CONFIG.useWhisperFallback
    /\ (IF result.present THEN Lt(result.confidence, threshold) ELSE TRUE)

\* if (useWhisperFallback && WHISPER_AVAILABLE &&
\*     (!result || result.confidence < confidenceThreshold))
whisperGateOpen ==
    /\ CONFIG.useWhisperFallback
    /\ WHISPER_AVAILABLE
    /\ (IF result.present THEN Lt(result.confidence, threshold) ELSE TRUE)

WhisperCall ==
    /\ pc = "whisper_gate"
    /\ whisperGateOpen
    /\ calls' = Append(calls, [provider |-> "whisper", attempt |-> 1,
                               prompt |-> "none", sent |-> TRUE,
                               bytes |-> audioBuffer.size])
    /\ pc' = "whisper_wait"
    /\ UNCHANGED <<idle, attempt, result, lastError, attempts,
                   sleeps, thrown, heardText>>

\* 0.9, or 0.75 for an unusual speaking rate; 0.1 less for poor audio
whisperConfidenceOf(whisperText) ==
    LET whisperWords == SplitCount(whisperText)
        unusual == \/ whisperWords * 6000 < durationOr1
                   \/ whisperWords * 3000 > 7 * durationOr1
        base == IF unusual THEN Pct(75) ELSE Pct(90)
    IN IF quality.quality = "poor" THEN base - Pct(10) ELSE base

\* variant: a result of the general tier is always kept
shouldUseWhisper_keep(res, wc) == ~res.present

\* !result || whisperConfidence > result.confidence || result.confidence < 0.4
shouldUseWhisper(res, wc) ==
    IF ~res.present THEN TRUE
    ELSE Gt(wc, res.confidence) \/ Lt(res.confidence, Pct(40))

whisperResultOf(whisperText, wc) ==
    [ present |-> TRUE,
      text |-> applyCorrections(whisperText),
      rawText |-> whisperText,
      confidence |-> wc,
      method |-> "whisper-local",
      attempts |-> [count |-> Len(attempts) + 1],
      fallback |-> TRUE,
      noSpeech |-> FALSE ]

WhisperSettle ==
    /\ pc = "whisper_wait"
    /\ \E resp \in WhisperResponses :
        LET r == transcribeWithLocalWhisper(resp)
            wc == whisperConfidenceOf(r.text)
        IN
        IF r.ok
        THEN /\ whisperConfidence' = wc
             /\ heardText' = (heardText \/ Truthy(r.text))
             /\ IF shouldUseWhisper(result, wc)
                THEN /\ result' = whisperResultOf(r.text, wc)
                     /\ attempts' = Append(attempts,
                           [method |-> "whisper", attempt |-> 1,
                            success |-> TRUE, confidence |-> wc,
                            error |-> NoError, promptType |-> "none"])
                ELSE UNCHANGED <<result, attempts>>
        ELSE /\ attempts' = Append(attempts,
                    [method |-> "whisper", attempt |-> 1, success |-> FALSE,
                     confidence |-> 0,
                     error |-> IF r.type = NoType THEN "UNKNOWN" ELSE r.type,
                     promptType |-> "none"])
             /\ UNCHANGED <<result, whisperConfidence, heardText>>
    /\ pc' = "finish"
    /\ UNCHANGED <<inputs, handlerVars, attempt, lastError, calls, sleeps, thrown>>

\* ------------------------------------------------------- transcribe, the end
\* if (result.text) { cleanup; if (!result.text) { confidence = 0.1; ... } }
cleanedResult(res) ==
    IF ~Truthy(res.text) THEN res
    ELSE LET cleaned == CleanupText(res.text) IN
         IF Truthy(cleaned)
         THEN [res EXCEPT !.text = cleaned]
         ELSE [res EXCEPT !.text = cleaned, !.confidence = Pct(10),
                          !.noSpeech = TRUE]

\* if (!result) throw lastError || TRANSCRIPTION_FAILED; clean up; return
finishRun ==
    /\ IF ~result.present
       THEN /\ thrown' = IF lastError # NoError THEN lastError
                         ELSE "TRANSCRIPTION_FAILED"
            /\ pc' = "raised"
            /\ UNCHANGED result
       ELSE /\ result' = [cleanedResult(result) EXCEPT
                              !.attempts = [log |-> attempts]]
            /\ pc' = "returned"
            /\ UNCHANGED thrown
    /\ UNCHANGED <<idle, attempt, lastError, attempts, calls,
                   sleeps, heardText>>

\* variant: with the gate closed the run stays where it is
WhisperSkip_stall ==
    /\ pc = "whisper_gate"
    /\ ~whisperGateOpen
    /\ UNCHANGED vars

\* the local tier is skipped: straight to the end of transcribe
WhisperSkip ==
    /\ pc = "whisper_gate"
    /\ ~whisperGateOpen
    /\ finishRun

\* the end of transcribe after the local tier has run
Finish ==
    /\ pc = "finish"
    /\ finishRun

\* ------------------------------------------- server.js, the /transcribe handler
transcribeVars == <<result, attempts, thrown, whisperConfidence, heardText>>

InitHandler ==
    /\ entry = "handler"
    /\ CONFIG \in {c \in Configs : /\ ~c.groqApiKey /\ ~c.useWhisperFallback
                                   /\ c.confidenceThreshold = 60}
    /\ WHISPER_AVAILABLE = FALSE
    /\ audioBuffer \in HandlerBuffers
    /\ pc = "start"
    /\ attempt = 1
    /\ result = NoResult
    /\ lastError = NoError
    /\ attempts = <<>>
    /\ calls = <<>>
    /\ sleeps = <<>>
    /\ thrown = NoError
    /\ whisperConfidence = 0
    /\ transcriptionResult = NoResult
    /\ lastStatusCode = 0
    /\ lastRetryable = FALSE
    /\ response = NoResponse
    /\ requestAborted = FALSE
    /\ heardText = FALSE
    /\ validation = NoResult
    /\ ToolsIdle
    /\ ClientIdle

\* analyzeAudioQuality of server.js: zero ratio of the first 1024 bytes
serverAnalyzeAudioQuality(buffer) ==
    LET sampleSize == Min(buffer.size, 1024) IN
    [ isMostlySilence |-> buffer.prefixZeros * 10 > 9 * sampleSize,
      recommended |-> ~(buffer.prefixZeros * 100 > 95 * sampleSize),
      size |-> buffer.size ]

serverRetryableTypes ==
    {"RATE_LIMIT", "TIMEOUT", "NETWORK_ERROR", "SERVICE_UNAVAILABLE"}

sendErrorResponse(statusCode, errorType) ==
    [ sent |-> TRUE, status |-> statusCode, error |-> errorType,
      retryable |-> errorType \in serverRetryableTypes,
      success |-> FALSE, transcript |-> T_empty ]

ErrS(type, statusCode, retryable) ==
    [ok |-> FALSE, text |-> T_empty, type |-> type, statusCode |-> statusCode,
     retryable |-> retryable]

\* switch (response.status) of the !response.ok branch
httpErrorType(status) ==
    CASE status = 400 -> "INVALID_REQUEST"
      [] status = 401 -> "INVALID_API_KEY"
      [] status = 403 -> "FORBIDDEN"
      [] status = 429 -> "RATE_LIMIT"
      [] status \in {500, 502, 503} -> "SERVICE_UNAVAILABLE"
      [] OTHER -> "API_ERROR"

\* attemptTranscription: outcome for an endpoint answer, with the retryable
\* flag each throw statement attaches
attemptTranscription(resp) ==
    IF resp.kind = "abort" THEN ErrS("TIMEOUT", 504, TRUE)
    ELSE IF resp.kind = "network" THEN ErrS("NETWORK_ERROR", 503, TRUE)
    ELSE IF resp.kind = "http"
         THEN ErrS(httpErrorType(resp.status), resp.status,
                   httpErrorType(resp.status) \notin
                       {"INVALID_REQUEST", "INVALID_API_KEY", "FORBIDDEN"})
    ELSE IF resp.kind = "safety" THEN ErrS("CONTENT_BLOCKED", 400, FALSE)
    ELSE [ok |-> TRUE, text |-> resp.text, type |-> NoError,
          statusCode |-> 200, retryable |-> FALSE]

\* error kinds on which the loop of the handler breaks
handlerNoRetry ==
    {"INVALID_REQUEST", "INVALID_API_KEY", "FORBIDDEN", "CONTENT_BLOCKED"}

\* Math.min(RETRY_DELAY_BASE * Math.pow(2, attempt - 1), RETRY_DELAY_MAX)
HandlerRetryDelay(k) == Min(RETRY_DELAY_BASE * Pow2(k - 1), RETRY_DELAY_MAX)

\* req.on('close', () => { requestAborted = true; }): the event is taken
\* in while the handler is not running, that is before 'end' or while it
\* awaits a provider call or a backoff sleep
ReqClose ==
    /\ entry = "handler"
    /\ pc \in {"start", "h_wait", "h_sleep"}
    /\ ~requestAborted
    /\ requestAborted' = TRUE
    /\ UNCHANGED <<entry, CONFIG, WHISPER_AVAILABLE, audioBuffer, validation,
                   pc, attempt, lastError, calls, sleeps, transcribeVars,
                   handlerVars, toolVars, clientVars>>

\* req.on('end'): if (requestAborted) return; then the gates in front of
\* the retry loop
HandlerReceive ==
    /\ entry = "handler" /\ pc = "start"
    /\ IF requestAborted
       THEN /\ pc' = "aborted"
            /\ UNCHANGED response
       ELSE IF audioBuffer.size = 0
       THEN /\ response' = sendErrorResponse(400, "INVALID_AUDIO")
            /\ pc' = "responded"
       ELSE IF audioBuffer.size < MIN_AUDIO_SIZE
       THEN /\ response' = [ sent |-> TRUE, status |-> 200, error |-> NoError,
                             retryable |-> FALSE, success |-> FALSE,
                             transcript |-> T_empty ]
            /\ pc' = "responded"
       ELSE IF audioBuffer.size > MAX_AUDIO_SIZE
       THEN /\ response' = sendErrorResponse(413, "AUDIO_TOO_LARGE")
            /\ pc' = "responded"
       ELSE IF ~CONFIG.geminiApiKey
       THEN /\ response' = sendErrorResponse(500, "CONFIG_ERROR")
            /\ pc' = "responded"
       ELSE /\ pc' = "h_loop"
            /\ UNCHANGED response
    /\ UNCHANGED <<inputs, transcribeVars, attempt, lastError, calls, sleeps,
                   transcriptionResult, lastStatusCode, lastRetryable>>

\* let audioBuffer = buffer; if (buffer.length > GEMINI_AUDIO_LIMIT)
\* audioBuffer = buffer.slice(0, GEMINI_AUDIO_LIMIT): its length
handlerSentLength(buffer) ==
    IF buffer.size > GEMINI_AUDIO_LIMIT
    THEN SliceLength(buffer.size, GEMINI_AUDIO_LIMIT)
    ELSE buffer.size

\* for (attempt = 1; attempt <= MAX_RETRIES; ...) attemptTranscription(...)
HandlerAttemptCall ==
    /\ pc = "h_loop"
    /\ attempt <= MAX_RETRIES
    /\ calls' = Append(calls, [provider |-> "gemini", attempt |-> attempt,
                               prompt |-> "standard", sent |-> TRUE,
                               bytes |-> handlerSentLength(audioBuffer)])
    /\ pc' = "h_wait"
    /\ UNCHANGED <<inputs, transcribeVars, handlerVars, attempt, lastError,
                   sleeps>>

\* variant: a sleep follows the last attempt too
afterHandlerFailure_sleepAlways(type, k) ==
    IF type \in handlerNoRetry THEN "h_respond" ELSE "h_sleep"

\* break on the kinds that are not retried; sleep unless it was the last
afterHandlerFailure(type, k) ==
    IF type \in handlerNoRetry THEN "h_respond"
    ELSE IF k < MAX_RETRIES THEN "h_sleep" ELSE "h_respond"

HandlerAttemptSettle ==
    /\ pc = "h_wait"
    /\ \E resp \in GeminiResponses :
        LET r == attemptTranscription(resp) IN
        IF r.ok
        THEN /\ transcriptionResult' =
                    [present |-> TRUE, success |-> TRUE, text |-> r.text,
                     attempts |-> 1]
             /\ pc' = "h_respond"
             /\ UNCHANGED <<lastError, lastStatusCode, lastRetryable,
                            attempt>>
        ELSE /\ lastError' = r.type
             /\ lastStatusCode' = r.statusCode
             /\ lastRetryable' = r.retryable
             /\ UNCHANGED transcriptionResult
             /\ pc' = afterHandlerFailure(r.type, attempt)
             /\ UNCHANGED attempt
    /\ UNCHANGED <<inputs, transcribeVars, calls, sleeps, response>>

HandlerSleep ==
    /\ pc = "h_sleep"
    /\ sleeps' = Append(sleeps, HandlerRetryDelay(attempt))
    /\ attempt' = attempt + 1
    /\ pc' = "h_loop"
    /\ UNCHANGED <<inputs, transcribeVars, handlerVars, lastError, calls>>

RECURSIVE ContainsNoSpeech(_)
ContainsNoSpeech(s) ==
    IF Len(s) < 3 THEN FALSE
    ELSE \/ (s[1] = "no" /\ s[2] = " " /\ s[3] = "speech")
         \/ ContainsNoSpeech(Tail(s))

\* the handler's own sentinel clean-up
handlerCleanup(text) ==
    LET transcription == Trim(text) IN
    IF \/ transcription = <<"[", "no", " ", "speech", " ", "detected", "]">>
       \/ transcription = <<"[", "No", " ", "speech", " ", "detected", "]">>
       \/ transcription = <<"[", "silence", "]">>
       \/ ContainsNoSpeech(LowerSeq(transcription))
    THEN T_empty ELSE transcription

HandlerRespond ==
    /\ pc = "h_respond"
    /\ response' =
         IF transcriptionResult.present
         THEN [ sent |-> TRUE, status |-> 200, error |-> NoError,
                retryable |-> FALSE, success |-> TRUE,
                transcript |-> handlerCleanup(transcriptionResult.text) ]
         ELSE IF lastError # NoError
         THEN sendErrorResponse(
                  IF lastStatusCode # 0 THEN lastStatusCode ELSE 500,
                  IF lastError # NoType THEN lastError
                  ELSE "TRANSCRIPTION_FAILED")
         ELSE sendErrorResponse(500, "UNKNOWN_ERROR")
    /\ pc' = "responded"
    /\ UNCHANGED <<inputs, transcribeVars, attempt, lastError, calls, sleeps,
                   transcriptionResult, lastStatusCode, lastRetryable>>

\* ------------------------------------------ audio-processor.js, validateAudio
\* the limits validateAudio declares for itself
validateAudio_MIN_AUDIO_SIZE == 1000
validateAudio_MAX_AUDIO_SIZE == 10485760
validateAudio_GEMINI_AUDIO_LIMIT == 8000000

\* Buffers validateAudio is applied to (bound on the inputs): no buffer at
\* all, the sizes around its limits, silent and audible contents.
B_missing == [size |-> 0, sampledZeros |-> 0, stddev |-> 0, prefixZeros |-> 0,
              missing |-> TRUE]
B_one == [size |-> 1, sampledZeros |-> 0, stddev |-> 0, prefixZeros |-> 0]
B_short == [size |-> 999, sampledZeros |-> 10, stddev |-> 40,
            prefixZeros |-> 10]
B_min == [size |-> 1000, sampledZeros |-> 10, stddev |-> 40,
          prefixZeros |-> 10]
B_max == [size |-> 10485760, sampledZeros |-> 20, stddev |-> 40,
          prefixZeros |-> 10]
B_hugeSilent == [size |-> 10485761, sampledZeros |-> 2048, stddev |-> 0,
                 prefixZeros |-> 1024]
ValidateBuffers ==
    {B_missing, B_none, B_one, B_tiny, B_short, B_min, B_clear, B_silent,
     B_faint, B_noisy, B_big, B_max, B_huge, B_hugeSilent}

Rejected(code, analysed) ==
    [present |-> TRUE, valid |-> FALSE, code |-> code, analysed |-> analysed,
     truncated |-> FALSE, length |-> 0]

\* variant: the buffer is handed on whole
processedLength_whole(buffer) == buffer.size

\* let processedBuffer = buffer; if (buffer.length > GEMINI_AUDIO_LIMIT)
\* processedBuffer = buffer.slice(0, GEMINI_AUDIO_LIMIT): its length
processedLength(buffer) ==
    IF buffer.size > validateAudio_GEMINI_AUDIO_LIMIT
    THEN SliceLength(buffer.size, validateAudio_GEMINI_AUDIO_LIMIT)
    ELSE buffer.size

\* variant: the silence gate comes before the size gates
validateAudio_silenceFirst(buffer) ==
    IF buffer = B_missing \/ buffer.size = 0 THEN Rejected(NoType, FALSE)
    ELSE IF analyzeAudioQuality(buffer).isMostlySilence
    THEN Rejected("SILENCE", TRUE)
    ELSE IF buffer.size < validateAudio_MIN_AUDIO_SIZE
    THEN Rejected("TOO_SHORT", TRUE)
    ELSE IF buffer.size > validateAudio_MAX_AUDIO_SIZE
    THEN Rejected("TOO_LARGE", TRUE)
    ELSE [present |-> TRUE, valid |-> TRUE, code |-> NoType,
          analysed |-> TRUE,
          truncated |-> buffer.size > validateAudio_GEMINI_AUDIO_LIMIT,
          length |-> processedLength(buffer)]

\* validateAudio(buffer); analysed: analyzeAudioQuality was called and its
\* quality is part of what is returned
validateAudio(buffer) ==
    IF buffer = B_missing \/ buffer.size = 0 THEN Rejected(NoType, FALSE)
    ELSE IF buffer.size < validateAudio_MIN_AUDIO_SIZE
    THEN Rejected("TOO_SHORT", FALSE)
    ELSE IF buffer.size > validateAudio_MAX_AUDIO_SIZE
    THEN Rejected("TOO_LARGE", FALSE)
    ELSE IF analyzeAudioQuality(buffer).isMostlySilence
    THEN Rejected("SILENCE", TRUE)
    ELSE [present |-> TRUE, valid |-> TRUE, code |-> NoType,
          analysed |-> TRUE,
          truncated |-> buffer.size > validateAudio_GEMINI_AUDIO_LIMIT,
          length |-> processedLength(buffer)]

InitValidate ==
    /\ entry = "validate"
    /\ CONFIG = [ groqApiKey |-> FALSE, geminiApiKey |-> FALSE,
                  useWhisperFallback |-> FALSE, confidenceThreshold |-> 60 ]
    /\ WHISPER_AVAILABLE = FALSE
    /\ audioBuffer \in ValidateBuffers
    /\ pc = "start"
    /\ attempt = 1
    /\ result = NoResult
    /\ lastError = NoError
    /\ attempts = <<>>
    /\ calls = <<>>
    /\ sleeps = <<>>
    /\ thrown = NoError
    /\ whisperConfidence = 0
    /\ transcriptionResult = NoResult
    /\ lastStatusCode = 0
    /\ lastRetryable = FALSE
    /\ response = NoResponse
    /\ requestAborted = FALSE
    /\ heardText = FALSE
    /\ validation = NoResult
    /\ ToolsIdle
    /\ ClientIdle

\* one call of validateAudio on the buffer
ValidateAudio ==
    /\ entry = "validate" /\ pc = "start"
    /\ validation' = validateAudio(audioBuffer)
    /\ pc' = "validated"
    /\ UNCHANGED <<entry, CONFIG, WHISPER_AVAILABLE, audioBuffer,
                   requestAborted, attempt, lastError, calls, sleeps,
                   transcribeVars, handlerVars, toolVars, clientVars>>

\* ------------------------------------ preprocessAudio and the local whisper:
\* ------------------------------------ the child processes and their files
\* Requests that may be in flight at once, and how far the clock runs.
Requests == {1, 2}
MaxNow == 2
Tools == {"ffmpeg", "whisper"}
QualityTiers == {"good", "fair", "poor"}

\* const tempDir = '/tmp/audio-preprocessing' | '/tmp/whisper-transcriptions'
tempDirOf(tool) ==
    IF tool = "ffmpeg" THEN "/tmp/audio-preprocessing"
    ELSE "/tmp/whisper-transcriptions"

\* path.join(tempDir, `input_${timestamp}.${inputExt}`) for audio/webm
inputFileOf(tool, timestamp) ==
    [dir |-> tempDirOf(tool), stem |-> "input", timestamp |-> timestamp,
     ext |-> "webm"]

\* `output_${timestamp}.wav` of ffmpeg, `input_${timestamp}.txt` of whisper
outputFileOf(tool, timestamp) ==
    IF tool = "ffmpeg"
    THEN [dir |-> tempDirOf(tool), stem |-> "output",
          timestamp |-> timestamp, ext |-> "wav"]
    ELSE [dir |-> tempDirOf(tool), stem |-> "input",
          timestamp |-> timestamp, ext |-> "txt"]

\* A file is its path and the request whose process wrote it.
existsSync(fs, path) == \E f \in fs : f.path = path

writtenBy(fs, path) == (CHOOSE f \in fs : f.path = path).by

\* fs.writeFileSync / open for writing: creates the file or replaces it
writeFile(fs, path, by) ==
    {f \in fs : f.path # path} \cup {[path |-> path, by |-> by]}

\* finally { if (existsSync(inputFile)) unlinkSync(inputFile);
\*           if (existsSync(outputFile)) unlinkSync(outputFile); }
preprocessCleanup(fs, timestamp) ==
    {f \in fs : f.path \notin {inputFileOf("ffmpeg", timestamp),
                                outputFileOf("ffmpeg", timestamp)}}

\* finally { unlink inputFile, outputFile, and every file of tempDir whose
\*           name includes the timestamp }
whisperCleanup(fs, timestamp) ==
    {f \in fs : ~(/\ f.path.dir = tempDirOf("whisper")
                  /\ f.path.timestamp = timestamp)}

\* confidence of the result when preprocessing is skipped
skippedConfidence(tier) ==
    IF tier = "good" THEN Pct(85) ELSE IF tier = "fair" THEN Pct(70)
    ELSE Pct(50)

\* confidence of the result when ffmpeg has run
processedConfidence(tier) ==
    IF tier = "good" THEN Pct(90) ELSE IF tier = "fair" THEN Pct(75)
    ELSE Pct(55)

\* variant: a failed run reports what a skipped one reports
failedConfidence_asSkipped(tier) ==
    IF tier = "good" THEN Pct(85) ELSE IF tier = "fair" THEN Pct(70)
    ELSE Pct(50)

\* confidence of the result of the catch block
failedConfidence(tier) ==
    IF tier = "good" THEN Pct(80) ELSE IF tier = "fair" THEN Pct(65)
    ELSE Pct(45)

\* One call: pc is new, await (the promise around the child is pending) or
\* settled; child is none, failed (spawn did not start it), running, killed
\* (SIGTERM sent, not yet dead) or exited; opened tells whether the child
\* has opened its output file.
NewJob(tool, forceProcessing) ==
    [tool |-> tool, forceProcessing |-> forceProcessing, pc |-> "new",
     timestamp |-> 0, child |-> "none", opened |-> FALSE,
     outcome |-> NoResult]

\* What a call settles with: via is the path taken, data the request whose
\* audio or transcript is handed back, type the error (NoError: none).
Settled(via, processed, data, confidence, type) ==
    [present |-> TRUE, via |-> via, processed |-> processed, data |-> data,
     confidence |-> confidence, type |-> type]

\* catch (error) { return { buffer, quality, processed: false, error, ... } }
preprocessFallback(r, via) ==
    Settled(via, FALSE, r, failedConfidence(quality.quality), "error")

requestVars == <<entry, CONFIG, WHISPER_AVAILABLE, audioBuffer, pc, attempt,
                 result, lastError, attempts, calls, sleeps, thrown,
                 whisperConfidence, transcriptionResult, lastStatusCode,
                 lastRetryable,
                 response, requestAborted, heardText, validation>>

ToolBuffers == {B_clear, B_long, B_noisy, B_faint}

\* no transcription request is being served
NoRequest ==
    /\ CONFIG = [groqApiKey |-> FALSE, geminiApiKey |-> FALSE,
                 useWhisperFallback |-> TRUE, confidenceThreshold |-> 60]
    /\ WHISPER_AVAILABLE = TRUE
    /\ pc = "idle"
    /\ attempt = 1
    /\ result = NoResult
    /\ lastError = NoError
    /\ attempts = <<>>
    /\ calls = <<>>
    /\ sleeps = <<>>
    /\ thrown = NoError
    /\ whisperConfidence = 0
    /\ transcriptionResult = NoResult
    /\ lastStatusCode = 0
    /\ lastRetryable = FALSE
    /\ response = NoResponse
    /\ requestAborted = FALSE
    /\ heardText = FALSE
    /\ validation = NoResult

InitTools ==
    /\ entry = "tools"
    /\ NoRequest
    /\ ClientIdle
    /\ audioBuffer \in ToolBuffers
    /\ FFMPEG_AVAILABLE \in BOOLEAN
    /\ now = 1
    /\ jobs \in [Requests ->
                  {NewJob("ffmpeg", f) : f \in BOOLEAN}
                  \cup {NewJob("whisper", FALSE)}]
    /\ files = {}
    /\ applied = NoResult

\* a millisecond passes
Tick ==
    /\ entry = "tools"
    /\ now < MaxNow
    /\ now' = now + 1
    /\ UNCHANGED <<requestVars, clientVars, FFMPEG_AVAILABLE, jobs, files, applied>>

\* preprocessAudio up to its first await: the two early returns, else the
\* input file is written and ffmpeg spawned
PreprocessStart(r) ==
    /\ entry = "tools"
    /\ jobs[r].tool = "ffmpeg" /\ jobs[r].pc = "new"
    /\ IF quality.isMostlySilence
       THEN /\ jobs' = [jobs EXCEPT ![r].pc = "settled",
                   ![r].outcome = Settled("silence", FALSE, r, Pct(10),
                                          "error")]
            /\ UNCHANGED files
       ELSE IF \/ ~FFMPEG_AVAILABLE
               \/ (quality.quality = "good" /\ ~jobs[r].forceProcessing)
       THEN /\ jobs' = [jobs EXCEPT ![r].pc = "settled",
                   ![r].outcome = Settled("skipped", FALSE, r,
                       skippedConfidence(quality.quality), NoError)]
            /\ UNCHANGED files
       ELSE \E spawned \in BOOLEAN :
            /\ files' = writeFile(files, inputFileOf("ffmpeg", now), r)
            /\ jobs' = [jobs EXCEPT ![r].pc = "await",
                   ![r].timestamp = now,
                   ![r].child = IF spawned THEN "running" ELSE "failed"]
    /\ UNCHANGED <<requestVars, clientVars, FFMPEG_AVAILABLE, now, applied>>

\* ffmpeg.on('close', code): reject on a non-zero code, else the output
\* file is read back; then the finally block
PreprocessClose(r) ==
    /\ entry = "tools"
    /\ jobs[r].tool = "ffmpeg" /\ jobs[r].pc = "await"
    /\ jobs[r].child = "running"
    /\ \E code \in {0, 1}, processedTier \in QualityTiers :
         LET outputFile == outputFileOf("ffmpeg", jobs[r].timestamp)
             outcome ==
                 IF code # 0 THEN preprocessFallback(r, "exit")
                 ELSE IF ~existsSync(files, outputFile)
                 THEN preprocessFallback(r, "missing")
                 ELSE Settled("done", TRUE, writtenBy(files, outputFile),
                              processedConfidence(processedTier), NoError)
         IN jobs' = [jobs EXCEPT ![r].pc = "settled",
                                 ![r].child = "exited",
                                 ![r].outcome = outcome]
    /\ files' = preprocessCleanup(files, jobs[r].timestamp)
    /\ UNCHANGED <<requestVars, clientVars, FFMPEG_AVAILABLE, now, applied>>

\* ffmpeg.on('error', err): the child could not be started
PreprocessError(r) ==
    /\ entry = "tools"
    /\ jobs[r].tool = "ffmpeg" /\ jobs[r].pc = "await"
    /\ jobs[r].child = "failed"
    /\ jobs' = [jobs EXCEPT ![r].pc = "settled", ![r].child = "none",
                            ![r].outcome = preprocessFallback(r, "spawn")]
    /\ files' = preprocessCleanup(files, jobs[r].timestamp)
    /\ UNCHANGED <<requestVars, clientVars, FFMPEG_AVAILABLE, now, applied>>

\* setTimeout(() => { ffmpeg.kill('SIGTERM'); reject(...) }, 30000): the
\* signal is sent, the promise rejects and the finally block runs at once
PreprocessTimeout(r) ==
    /\ entry = "tools"
    /\ jobs[r].tool = "ffmpeg" /\ jobs[r].pc = "await"
    /\ jobs[r].child = "running"
    /\ jobs' = [jobs EXCEPT ![r].pc = "settled", ![r].child = "killed",
                            ![r].outcome = preprocessFallback(r, "timeout")]
    /\ files' = preprocessCleanup(files, jobs[r].timestamp)
    /\ UNCHANGED <<requestVars, clientVars, FFMPEG_AVAILABLE, now, applied>>

\* transcribeWithLocalWhisper up to the promise around the child
WhisperRunStart(r) ==
    /\ entry = "tools"
    /\ jobs[r].tool = "whisper" /\ jobs[r].pc = "new"
    /\ \E spawned \in BOOLEAN :
         /\ files' = writeFile(files, inputFileOf("whisper", now), r)
         /\ jobs' = [jobs EXCEPT ![r].pc = "await",
                ![r].timestamp = now,
                ![r].child = IF spawned THEN "running" ELSE "failed"]
    /\ UNCHANGED <<requestVars, clientVars, FFMPEG_AVAILABLE, now, applied>>

\* whisper.on('close', code): WHISPER_ERROR on a non-zero code, else the
\* output file (or stdout) is read, WHISPER_EMPTY when it holds nothing
WhisperRunClose(r) ==
    /\ entry = "tools"
    /\ jobs[r].tool = "whisper" /\ jobs[r].pc = "await"
    /\ jobs[r].child = "running"
    /\ \E code \in {0, 1}, heard \in BOOLEAN :
         LET outputFile == outputFileOf("whisper", jobs[r].timestamp)
             source == IF existsSync(files, outputFile)
                       THEN writtenBy(files, outputFile) ELSE r
             outcome ==
                 IF code # 0
                 THEN Settled("exit", FALSE, r, 0, "WHISPER_ERROR")
                 ELSE IF ~heard
                 THEN Settled("empty", FALSE, source, 0, "WHISPER_EMPTY")
                 ELSE Settled("done", TRUE, source, 0, NoError)
         IN jobs' = [jobs EXCEPT ![r].pc = "settled",
                                 ![r].child = "exited",
                                 ![r].outcome = outcome]
    /\ files' = whisperCleanup(files, jobs[r].timestamp)
    /\ UNCHANGED <<requestVars, clientVars, FFMPEG_AVAILABLE, now, applied>>

\* whisper.on('error', err)
WhisperRunError(r) ==
    /\ entry = "tools"
    /\ jobs[r].tool = "whisper" /\ jobs[r].pc = "await"
    /\ jobs[r].child = "failed"
    /\ jobs' = [jobs EXCEPT ![r].pc = "settled", ![r].child = "none",
           ![r].outcome = Settled("spawn", FALSE, r, 0, "WHISPER_ERROR")]
    /\ files' = whisperCleanup(files, jobs[r].timestamp)
    /\ UNCHANGED <<requestVars, clientVars, FFMPEG_AVAILABLE, now, applied>>

\* setTimeout(() => { whisper.kill('SIGTERM'); reject({type: 'TIMEOUT'}) })
WhisperRunTimeout(r) ==
    /\ entry = "tools"
    /\ jobs[r].tool = "whisper" /\ jobs[r].pc = "await"
    /\ jobs[r].child = "running"
    /\ jobs' = [jobs EXCEPT ![r].pc = "settled", ![r].child = "killed",
           ![r].outcome = Settled("timeout", FALSE, r, 0, "TIMEOUT")]
    /\ files' = whisperCleanup(files, jobs[r].timestamp)
    /\ UNCHANGED <<requestVars, clientVars, FFMPEG_AVAILABLE, now, applied>>

\* the child opens its output file: a child that was sent SIGTERM runs until
\* the signal reaches it, whatever the parent does meanwhile
ChildOpenOutput(r) ==
    /\ entry = "tools"
    /\ jobs[r].child \in {"running", "killed"}
    /\ ~jobs[r].opened
    /\ files' = writeFile(files,
                          outputFileOf(jobs[r].tool, jobs[r].timestamp), r)
    /\ jobs' = [jobs EXCEPT ![r].opened = TRUE]
    /\ UNCHANGED <<requestVars, clientVars, FFMPEG_AVAILABLE, now, applied>>

\* the signal reaches the child
ChildDie(r) ==
    /\ entry = "tools"
    /\ jobs[r].child = "killed"
    /\ jobs' = [jobs EXCEPT ![r].child = "exited"]
    /\ UNCHANGED <<requestVars, clientVars, FFMPEG_AVAILABLE, now, files, applied>>

PreprocessNext ==
    \E r \in Requests :
        \/ PreprocessStart(r) \/ PreprocessClose(r)
        \/ PreprocessError(r) \/ PreprocessTimeout(r)

WhisperRunNext ==
    \E r \in Requests :
        \/ WhisperRunStart(r) \/ WhisperRunClose(r)
        \/ WhisperRunError(r) \/ WhisperRunTimeout(r)

ChildNext == \E r \in Requests : ChildOpenOutput(r) \/ ChildDie(r)

NextTools == Tick \/ PreprocessNext \/ WhisperRunNext \/ ChildNext

SpecTools == InitTools /\ [][NextTools]_vars

\* ------------------------------------------- the helpers, called on their own
\* Inputs of calculateConfidence (bound on the inputs): quality objects with
\* every tier, zero ratio and entropy, transcripts and durations (1/3000 s).
ZeroRatios == {0, Pct(1), Pct(25), Pct(60), Pct(100)}
Entropies == {0, 20, 40}
Durations == {0, 1500, 3000, 49500}
ConfidenceTexts == {T_empty, T_blank, T_filler, T_speech, T_long}

Qualities ==
    [ quality : QualityTiers, zeroRatio : ZeroRatios, entropy : Entropies ]

\* Inputs of applyCorrections (bound on the inputs)
CorrectionTexts ==
    {T_speech, T_filler, T_eye, T_blank, T_likes, T_likeUhLike,
     T_eyeUhTools, T_sortUhOf, T_fashion}

\* Lengths of the buffers handed to analyzeAudioQuality (bound on the inputs)
SampleLengths == {2049, 3000, 4095, 4096, 6143, 8192, 51200}

SamplingBuffers ==
    {[size |-> n, sampledZeros |-> 20, stddev |-> 40, prefixZeros |-> 10] :
         n \in SampleLengths}

\* const step = Math.floor(buffer.length / sampleSize)
stepOf(length) == length \div Min(length, MaxSampleSize)

\* for (let i = 0; i < sampleSize && i * step < buffer.length; i++): the
\* number of rounds of the loop
sampleCount(length) ==
    Min(Min(length, MaxSampleSize),
        (length + stepOf(length) - 1) \div stepOf(length))

\* buffer[i * step] of the last round
lastSampledIndex(length) == (sampleCount(length) - 1) * stepOf(length)

InitHelpers ==
    /\ NoRequest
    /\ ClientIdle
    /\ FFMPEG_AVAILABLE = FALSE
    /\ now = 0
    /\ jobs = <<>>
    /\ files = {}
    /\ \/ /\ entry = "confidence"
          /\ audioBuffer = B_clear
          /\ applied \in [ called : {FALSE}, quality : Qualities,
                           transcript : ConfidenceTexts,
                           duration : Durations, value : {0} ]
       \/ /\ entry = "corrections"
          /\ audioBuffer = B_clear
          /\ applied \in [ called : {FALSE}, text : CorrectionTexts,
                           passes : {<<>>} ]
       \/ /\ entry = "sampling"
          /\ audioBuffer \in SamplingBuffers
          /\ applied = [called |-> FALSE, step |-> 0, count |-> 0,
                        last |-> 0]
       \/ /\ entry = "prompt"
          /\ audioBuffer = B_clear
          /\ applied \in [ called : {FALSE}, attempt : 1..maxRetries,
                           useFallbackPrompt : BOOLEAN,
                           prompt : {"none"}, promptType : {"none"} ]

\* one call of calculateConfidence
CalculateConfidence ==
    /\ entry = "confidence" /\ ~applied.called
    /\ applied' = [applied EXCEPT !.called = TRUE,
                       !.value = calculateConfidence(applied.quality,
                                     applied.transcript, applied.duration)]
    /\ UNCHANGED <<requestVars, clientVars, FFMPEG_AVAILABLE, now, jobs, files>>

\* applyCorrections on the text, then on what it returned
ApplyCorrections ==
    /\ entry = "corrections" /\ Len(applied.passes) < 2
    /\ LET x == IF applied.passes = <<>> THEN applied.text
                ELSE applied.passes[Len(applied.passes)]
       IN applied' = [applied EXCEPT !.called = TRUE,
                          !.passes = Append(applied.passes,
                                            applyCorrections(x))]
    /\ UNCHANGED <<requestVars, clientVars, FFMPEG_AVAILABLE, now, jobs, files>>

\* the sampling loop of analyzeAudioQuality on the buffer
AnalyzeSampling ==
    /\ entry = "sampling" /\ ~applied.called
    /\ applied' = [called |-> TRUE,
                   step |-> stepOf(audioBuffer.size),
                   count |-> sampleCount(audioBuffer.size),
                   last |-> lastSampledIndex(audioBuffer.size)]
    /\ UNCHANGED <<requestVars, clientVars, FFMPEG_AVAILABLE, now, jobs, files>>

\* one successful call of transcribeWithGemini with the options given
TranscribeWithGeminiOptions ==
    /\ entry = "prompt" /\ ~applied.called
    /\ applied' = [applied EXCEPT !.called = TRUE,
           !.prompt = geminiPrompt(applied.attempt,
                                   applied.useFallbackPrompt),
           !.promptType = geminiPromptType(applied.useFallbackPrompt)]
    /\ UNCHANGED <<requestVars, clientVars, FFMPEG_AVAILABLE, now, jobs, files>>

NextHelpers ==
    \/ CalculateConfidence \/ ApplyCorrections \/ AnalyzeSampling
    \/ TranscribeWithGeminiOptions

SpecHelpers == InitHelpers /\ [][NextHelpers]_vars

HandlerNext ==
    \/ ReqClose \/ HandlerReceive \/ HandlerAttemptCall
    \/ HandlerAttemptSettle \/ HandlerSleep \/ HandlerRespond

TranscribeNext ==
    \/ Start \/ GroqCall \/ GroqSettle
    \/ GeminiCall \/ GeminiSettle \/ BackoffSleep
    \/ WhisperCall \/ WhisperSkip \/ WhisperSettle \/ Finish

Init == InitTranscribe \/ InitHandler \/ InitValidate

Next == TranscribeNext \/ HandlerNext \/ ValidateAudio

Spec == Init /\ [][Next]_vars

\* transcribe alone; every step that can be taken is taken in the end: the
\* runtime resumes a run whose await has settled, and every provider call
\* and every sleep settles (each call carries a timeout)
LiveBuffers == {B_clear, B_noisy}

InitLive == InitTranscribe /\ audioBuffer \in LiveBuffers

SpecLive == InitLive /\ [][TranscribeNext]_vars /\ WF_vars(TranscribeNext)

\* transcribe on the buffers of the round-trip scenario
SpecScenario == InitScenario /\ [][TranscribeNext]_vars

\* ============================================================== properties
IsTranscribe == entry = "transcribe"
IsHandler == entry = "handler"

CallsOf(provider) == SelectSeq(calls, LAMBDA c : c.provider = provider)
GeminiCalls == CallsOf("gemini")
GeminiCallCount == Len(GeminiCalls)

GeminiAttempts == SelectSeq(attempts, LAMBDA a : a.method = "gemini")
GeminiSuccesses == SelectSeq(GeminiAttempts, LAMBDA a : a.success)

Ended == pc \in {"returned", "raised", "responded"}

IsSentinel(text) ==
    \/ MatchesBracketed(text, <<"no", " ", "speech", " ", "detected">>)
    \/ MatchesBracketed(text, <<"silence">>)

\* ---- C1
\* C1 as claimed: in a run of transcribe the Gemini attempts send the
\* prompts standard, standard, fallback (fallback only for attempt > 2).
C1_PromptsAsClaimed ==
    IsTranscribe =>
        \A i \in 1..GeminiCallCount :
            GeminiCalls[i].prompt =
                (IF GeminiCalls[i].attempt > 2 THEN "fallback" ELSE "standard")

\* C1 amended: in a run of transcribe attempt 1 sends the standard prompt
\* and every later attempt (attempt > 1) sends the fallback prompt, so the
\* prompts of three attempts are standard, fallback, fallback.
C1_PromptVariants ==
    IsTranscribe =>
        /\ \A i \in 1..GeminiCallCount :
              /\ GeminiCalls[i].attempt = i
              /\ GeminiCalls[i].prompt =
                    (IF i = 1 THEN "standard" ELSE "fallback")
        /\ \A i \in 1..Len(GeminiSuccesses) :
              GeminiSuccesses[i].promptType =
                 (IF GeminiSuccesses[i].attempt = 1 THEN "standard"
                  ELSE "fallback")

C1_Witness ==
    /\ IsTranscribe
    /\ GeminiCallCount = 3
    /\ [i \in 1..3 |-> GeminiCalls[i].prompt]
          = <<"standard", "fallback", "fallback">>

\* ---- C2
ExpectedSleeps(n) == SubSeq(<<1000, 2000, 4000, 8000, 8000>>, 1, n)

RateLimitedTwiceThenOk ==
    /\ Len(GeminiAttempts) = 3
    /\ ~GeminiAttempts[1].success /\ GeminiAttempts[1].error = "RATE_LIMIT"
    /\ ~GeminiAttempts[2].success /\ GeminiAttempts[2].error = "RATE_LIMIT"
    /\ GeminiAttempts[3].success

\* C2: between Gemini attempt k and attempt k+1 the run sleeps exactly
\* min(1000 * 2^(k-1), 8000) ms, in transcribe and in the HTTP handler; a
\* provider that fails with RATE_LIMIT twice and then succeeds is called
\* exactly 3 times with waits of 1000 ms and then 2000 ms.
C2_Backoff ==
    /\ GeminiCallCount <= 5
    /\ Len(sleeps) \in {GeminiCallCount - 1, GeminiCallCount}
    /\ (GeminiCallCount > 0 /\ Len(sleeps) = GeminiCallCount)
          => pc \in {"gemini", "h_loop"}
    /\ sleeps = ExpectedSleeps(Len(sleeps))
    /\ (IsTranscribe /\ RateLimitedTwiceThenOk) =>
          /\ GeminiCallCount = 3
          /\ sleeps = <<1000, 2000>>

C2_Witness ==
    /\ IsTranscribe
    /\ RateLimitedTwiceThenOk
    /\ GeminiCallCount = 3
    /\ sleeps = <<1000, 2000>>
    /\ Ended

\* ---- C3
NonRetryableKinds ==
    {"INVALID_REQUEST", "CONFIG_ERROR", "CONTENT_BLOCKED", "INVALID_API_KEY",
     "FORBIDDEN"}

InGeminiLoop ==
    pc \in {"gemini", "gemini_wait", "sleep", "h_loop", "h_wait", "h_sleep"}

\* C3: once a Gemini attempt has failed with INVALID_REQUEST, CONFIG_ERROR,
\* CONTENT_BLOCKED, INVALID_API_KEY or FORBIDDEN the retry loop is over: the
\* run is past the loop, that attempt was the last Gemini call, and no
\* backoff sleep followed it.
C3_NonRetryableEndsLoop ==
    lastError \in NonRetryableKinds =>
        /\ ~InGeminiLoop
        /\ GeminiCallCount = attempt
        /\ Len(sleeps) = attempt - 1

C3_Witness ==
    /\ IsTranscribe
    /\ lastError = "CONTENT_BLOCKED"
    /\ attempt = 1
    /\ GeminiCallCount = 1
    /\ Ended

\* ---- C4
SampledMostlySilent ==
    \/ IsTranscribe /\ quality.isMostlySilence
    \/ /\ IsHandler
       /\ audioBuffer.size > 0
       /\ ~serverAnalyzeAudioQuality(audioBuffer).recommended

\* C4: for a buffer whose sampled zero ratio exceeds 0.95 no provider is
\* ever invoked.
C4_SilenceNeverReachesProvider ==
    SampledMostlySilent => \A i \in 1..Len(calls) : ~calls[i].sent

\* ---- C5
\* C5: every returned result with an empty text has confidence <= 0.1 and
\* carries the noSpeech marker.
C5_EmptyTextMarked ==
    (IsTranscribe /\ pc = "returned" /\ ~Truthy(result.text)) =>
        /\ result.confidence <= Pct(10)
        /\ result.noSpeech

\* ---- C6
\* C6: when the text chosen by the orchestrator (the corrected text of the
\* provider result it returns) is a sentinel phrase, the returned result has
\* text "", confidence 0.1 and noSpeech = true.
C6_SentinelNormalised ==
    (IsTranscribe /\ pc = "returned"
        /\ IsSentinel(applyCorrections(result.rawText))) =>
        /\ result.text = T_empty
        /\ result.confidence = Pct(10)
        /\ result.noSpeech

\* ---- C7
GroqCallCount == Len(CallsOf("groq"))
WhisperCallCount == Len(CallsOf("whisper"))

\* the result in hand is the one the fast tier produced
GroqResultHeld == result.present /\ result.method = "groq-whisper"

\* C7 as claimed: with the fast tier configured, when Groq returns a
\* non-empty text the run returns it at once with no other provider call.
C7_RawTextReturned ==
    (IsTranscribe /\ GroqResultHeld /\ Truthy(result.rawText)) =>
        /\ pc = "returned"
        /\ Len(calls) = 1

\* C7 amended: with the fast tier configured exactly one Groq call is made
\* per run, and when the corrected text (applyCorrections of what Groq
\* returned) is non-empty the run returns that result at once, whatever its
\* confidence, with no Gemini call, no sleep and no Whisper call.
C7_FastTierAccepted ==
    IsTranscribe =>
        /\ GroqCallCount = (IF CONFIG.groqApiKey /\ pc # "start" /\ pc # "groq"
                            THEN 1 ELSE 0)
        /\ (GroqResultHeld /\ Truthy(applyCorrections(result.rawText))) =>
              /\ pc = "returned"
              /\ result.text = applyCorrections(result.rawText)
              /\ Len(calls) = 1
              /\ sleeps = <<>>

C7_Witness ==
    /\ IsTranscribe
    /\ pc = "returned"
    /\ GroqResultHeld
    /\ Truthy(result.text)
    /\ result.confidence < threshold
    /\ Len(calls) = 1

\* ---- C8
IsGeminiSuccess(e) == e.method = "gemini" /\ e.success

\* C8: a successful general-tier attempt carries the confidence computed for
\* its text, and once that confidence reaches the threshold the attempt's
\* result is returned: it is the last attempt made, no later Gemini call, no
\* backoff sleep after it and no Whisper call.
C8_AcceptAtThreshold ==
    IsTranscribe =>
        /\ (result.present /\ result.method = "gemini" /\ ~result.noSpeech) =>
              result.confidence =
                  calculateConfidence(quality, result.rawText, durationOr1)
        /\ \A i \in 1..Len(attempts) :
              (IsGeminiSuccess(attempts[i])
                  /\ attempts[i].confidence >= threshold) =>
                  /\ i = Len(attempts)
                  /\ pc = "returned"
                  /\ result.method = "gemini"
                  /\ result.confidence = attempts[i].confidence
                  /\ result.attempts = [count |-> attempts[i].attempt]
                  /\ GeminiCallCount = attempts[i].attempt
                  /\ Len(sleeps) = attempts[i].attempt - 1
                  /\ WhisperCallCount = 0

C8_Witness ==
    /\ IsTranscribe
    /\ pc = "returned"
    /\ Len(attempts) = 2
    /\ IsGeminiSuccess(attempts[1])
    /\ attempts[1].confidence < threshold
    /\ IsGeminiSuccess(attempts[2])
    /\ attempts[2].confidence >= threshold
    /\ CONFIG.useWhisperFallback /\ WHISPER_AVAILABLE

\* ---- C9
GeminiSuccessLog == SelectSeq(attempts, IsGeminiSuccess)

\* C9: Whisper is invoked at most once per run, and only when the local
\* fallback is enabled, the executable is available, and the general tier
\* has either produced no result or produced one below the threshold.
C9_LocalTierGate ==
    IsTranscribe =>
        /\ WhisperCallCount <= 1
        /\ WhisperCallCount = 1 =>
              /\ CONFIG.useWhisperFallback
              /\ WHISPER_AVAILABLE
              /\ \/ GeminiSuccessLog = <<>>
                 \/ GeminiSuccessLog[Len(GeminiSuccessLog)].confidence
                        < threshold

C9_Witness ==
    /\ IsTranscribe
    /\ WhisperCallCount = 1
    /\ GeminiSuccessLog # <<>>
    /\ Len(GeminiCalls) = maxRetries

\* ---- C10
\* the local tier ran and succeeded (its confidence is never 0)
WhisperSucceeded ==
    IsTranscribe /\ pc \in {"finish", "returned"} /\ whisperConfidence > 0

GeneralConfidence == GeminiSuccessLog[Len(GeminiSuccessLog)].confidence

\* C10: after a successful Whisper run the Whisper result is the one kept
\* if and only if the general tier produced no result, or Whisper's
\* confidence is strictly greater than the general tier's, or the general
\* tier's confidence is below 0.4.
C10_LocalReplacesGeneral ==
    WhisperSucceeded =>
        (result.method = "whisper-local" <=>
            IF GeminiSuccessLog = <<>> THEN TRUE
            ELSE \/ whisperConfidence > GeneralConfidence
                 \/ GeneralConfidence < Pct(40))

\* ---- C11
\* the retry loop has been left with at least one successful Gemini attempt
LeftLoopWithGeneral ==
    /\ IsTranscribe
    /\ pc \in {"whisper_gate", "whisper_wait"}
    /\ GeminiSuccessLog # <<>>

\* C11: the general-tier result that leaves the retry loop is the successful
\* Gemini attempt with the highest confidence of the run, not merely the
\* most recent one.
C11_BestGeneralKept ==
    LeftLoopWithGeneral =>
        /\ result.method = "gemini"
        /\ \A i \in 1..Len(GeminiSuccessLog) :
              result.confidence >= GeminiSuccessLog[i].confidence

\* ---- C12
FailedLog == SelectSeq(attempts, LAMBDA e : ~e.success)

\* kind of the last failed provider attempt of the run, whichever its tier
LastFailedKind ==
    IF FailedLog = <<>> THEN "TRANSCRIPTION_FAILED"
    ELSE FailedLog[Len(FailedLog)].error

\* C12: a run in which no tier produced text ends by raising, never by
\* returning a result, and the raised kind is that of the last failed
\* provider attempt (TRANSCRIPTION_FAILED when no provider was attempted).
C12_RaisesLastKind ==
    (IsTranscribe /\ pc \in {"returned", "raised"} /\ ~heardText) =>
        /\ pc = "raised"
        /\ thrown = LastFailedKind

\* ---- C13
TransientKinds == {"RATE_LIMIT", "TIMEOUT", "NETWORK_ERROR", "SERVICE_ERROR"}

\* fast tier unconfigured, local tier disabled, and every attempt logged so
\* far is a general-tier failure of a transient kind
OnlyTransientFailures ==
    /\ IsTranscribe
    /\ ~CONFIG.groqApiKey
    /\ ~CONFIG.useWhisperFallback
    /\ attempts # <<>>
    /\ \A i \in 1..Len(attempts) :
          /\ attempts[i].method = "gemini"
          /\ ~attempts[i].success
          /\ attempts[i].error \in TransientKinds

\* C13: with the fast tier unconfigured and the local tier disabled, a run
\* whose general-tier attempts all fail with a transient kind makes exactly
\* maxRetries Gemini calls, logs exactly maxRetries attempts and raises the
\* last kind seen; it does not end before the third attempt.
C13_TransientExhaustsRetries ==
    OnlyTransientFailures =>
        /\ Len(attempts) < maxRetries => pc \notin {"returned", "raised"}
        /\ pc \in {"returned", "raised"} =>
              /\ pc = "raised"
              /\ GeminiCallCount = maxRetries
              /\ Len(calls) = maxRetries
              /\ Len(attempts) = maxRetries
              /\ Len(sleeps) = maxRetries - 1
              /\ thrown = attempts[maxRetries].error

C13_Witness ==
    /\ OnlyTransientFailures
    /\ pc = "raised"
    /\ thrown = "SERVICE_ERROR"
    /\ Len(attempts) = 3
    /\ attempts[1].error = "RATE_LIMIT"

\* ---- C14
\* the run ended through the final clean-up of transcribe (the early
\* returns leave result.attempts a number)
ReturnedThroughCleanup ==
    IsTranscribe /\ pc = "returned" /\ result.attempts = [log |-> attempts]

\* C14 as claimed: on every return path the returned text is the
\* applyCorrections output of the chosen provider's raw text.
C14_TextIsCorrectedRaw ==
    (IsTranscribe /\ pc = "returned") =>
        result.text = applyCorrections(result.rawText)

\* C14 amended: the returned text is the applyCorrections output of the
\* chosen provider's raw text on the early returns; on the return through
\* the final clean-up it is that output too, except that an output which is
\* a no-speech sentinel is replaced by the empty text and marked noSpeech.
\* rawText is never rewritten.
C14_TextIsCorrectedThenCleaned ==
    (IsTranscribe /\ pc = "returned") =>
        LET corrected == applyCorrections(result.rawText) IN
        IF ReturnedThroughCleanup /\ IsSentinel(corrected)
        THEN result.text = T_empty /\ result.noSpeech
        ELSE result.text = corrected

C14_Witness ==
    /\ ReturnedThroughCleanup
    /\ result.method = "gemini"
    /\ IsSentinel(result.rawText)
    /\ result.text = T_empty
    /\ result.noSpeech

\* ---- C15
\* C15: the confidence of every result transcribe returns lies in [0, 1].
C15_ConfidenceInUnitInterval ==
    (IsTranscribe /\ pc = "returned") =>
        /\ ~IsNaN(result.confidence)
        /\ result.confidence >= 0
        /\ result.confidence <= Pct(100)

\* ---- C16
\* the log has one entry per provider invocation, in invocation order
LogMatchesCalls ==
    /\ Len(attempts) = Len(calls)
    /\ \A i \in 1..Len(attempts) :
          /\ attempts[i].method = calls[i].provider
          /\ attempts[i].attempt = calls[i].attempt

\* C16: on every successful return result.attempts is the ordered log with
\* exactly one entry per provider invocation of the run, in invocation order.
C16_AttemptsIsTheLog ==
    (IsTranscribe /\ pc = "returned") =>
        /\ result.attempts = [log |-> attempts]
        /\ LogMatchesCalls

\* ---- C17
TierRank(provider) ==
    CASE provider = "groq" -> 1
      [] provider = "gemini" -> 2
      [] provider = "whisper" -> 3

\* provider calls whose outcome the run has not taken in yet: every settled
\* call is logged, except a Whisper success that was not preferred
SettledCalls ==
    Len(attempts)
    + (IF whisperConfidence > 0 /\ pc \in {"finish", "returned", "raised"}
          /\ (attempts = <<>> \/ attempts[Len(attempts)].method # "whisper")
       THEN 1 ELSE 0)

CallsInFlight == Len(calls) - SettledCalls

\* C17: within one run of transcribe at most one provider call is in flight
\* (a call is in flight exactly while the run awaits it), and the calls are
\* made in tier order: Groq at most once, then Gemini attempts 1, 2, ... in
\* increasing order, then Whisper at most once.
C17_SequentialTierOrder ==
    IsTranscribe =>
        /\ CallsInFlight =
              (IF pc \in {"groq_wait", "gemini_wait", "whisper_wait"}
               THEN 1 ELSE 0)
        /\ \A i, j \in 1..Len(calls) :
              i < j =>
                  /\ TierRank(calls[i].provider) <= TierRank(calls[j].provider)
                  /\ calls[i].provider = calls[j].provider =>
                        /\ calls[i].provider = "gemini"
                        /\ calls[i].attempt < calls[j].attempt
        /\ \A i \in 1..Len(GeminiCalls) : GeminiCalls[i].attempt = i

C17_Witness ==
    /\ IsTranscribe
    /\ Len(calls) = 5
    /\ calls[1].provider = "groq"
    /\ calls[5].provider = "whisper"
    /\ pc = "whisper_wait"

\* ---- C18
\* C18: once the client of a transcription request has disconnected, no
\* further provider call is started for that request.
C18_NoCallAfterDisconnect == [][requestAborted => calls' = calls]_vars

\* ---- C19
Validated == entry = "validate" /\ pc = "validated"

\* C19: validateAudio applies its gates in the order empty, too short, too
\* large, mostly silence: a buffer of 1 to 999 bytes is TOO_SHORT whatever
\* its content, a buffer over 10 MiB is TOO_LARGE and is not analysed, and
\* the silence gate decides only for the sizes in between.
C19_GateOrder ==
    Validated =>
        /\ (audioBuffer.size >= 1 /\ audioBuffer.size <= 999) =>
              /\ ~validation.valid
              /\ validation.code = "TOO_SHORT"
              /\ ~validation.analysed
        /\ audioBuffer.size > 10 * 1024 * 1024 =>
              /\ ~validation.valid
              /\ validation.code = "TOO_LARGE"
              /\ ~validation.analysed
        /\ validation.code = "SILENCE" =>
              /\ audioBuffer.size >= 1000
              /\ audioBuffer.size <= 10 * 1024 * 1024
              /\ analyzeAudioQuality(audioBuffer).isMostlySilence
        /\ validation.valid =>
              /\ audioBuffer.size >= 1000
              /\ audioBuffer.size <= 10 * 1024 * 1024
              /\ ~analyzeAudioQuality(audioBuffer).isMostlySilence

C19_Witness ==
    /\ Validated
    /\ audioBuffer = B_tiny
    /\ analyzeAudioQuality(audioBuffer).isMostlySilence
    /\ validation.code = "TOO_SHORT"

\* ---- C20
ValidationKinds == {"NO_AUDIO", "TOO_SHORT", "TOO_LARGE", "SILENCE"}

\* C20: every rejection of validateAudio carries an error kind among
\* NO_AUDIO, TOO_SHORT, TOO_LARGE and SILENCE; an empty or missing buffer
\* is rejected with NO_AUDIO.
C20_RejectionKinds ==
    (Validated /\ ~validation.valid) =>
        /\ validation.code \in ValidationKinds
        /\ audioBuffer.size = 0 => validation.code = "NO_AUDIO"

\* ---- C21
\* C21: for every buffer validateAudio accepts, the returned buffer has
\* length min(size, 8000000), never above the provider limit, and truncated
\* is true exactly when the input is longer than 8000000 bytes; the HTTP
\* handler cuts what it sends to Gemini to the same limit.
C21_TruncatedToLimit ==
    /\ (Validated /\ validation.valid) =>
          /\ validation.length = Min(audioBuffer.size, 8000000)
          /\ validation.length <= 8000000
          /\ validation.truncated <=> audioBuffer.size > 8000000
    /\ IsHandler =>
          \A i \in 1..Len(calls) :
              calls[i].bytes = Min(audioBuffer.size, 8000000)

C21_Witness ==
    /\ Validated
    /\ audioBuffer = B_big
    /\ validation.valid
    /\ validation.truncated
    /\ validation.length = 8000000

\* ---- C22
ErrorKinds ==
    {"NO_AUDIO", "TOO_SHORT", "TOO_LARGE", "SILENCE", "CONFIG_ERROR",
     "RATE_LIMIT", "SERVICE_ERROR", "INVALID_REQUEST", "INVALID_API_KEY",
     "FORBIDDEN", "CONTENT_BLOCKED", "TIMEOUT", "NETWORK_ERROR",
     "WHISPER_NOT_AVAILABLE", "WHISPER_ERROR", "WHISPER_EMPTY", "PARSE_ERROR",
     "INVALID_RESPONSE", "TRANSCRIPTION_FAILED", "UNKNOWN_ERROR"}

\* C22: every failure a provider adapter signals, hence every error in the
\* attempts log, every error kept as lastError and every error transcribe
\* raises, carries a kind of the closed ErrorKind taxonomy.
C22_ClosedTaxonomy ==
    /\ \A i \in 1..Len(attempts) :
          ~attempts[i].success => attempts[i].error \in ErrorKinds
    /\ lastError # NoError => lastError \in ErrorKinds
    /\ thrown # NoError => thrown \in ErrorKinds

\* ---------------------------------------------------------------- C23
ToolFailures == {"exit", "spawn", "timeout", "missing"}

\* C23: preprocessAudio never fails the request.  When the external tool
\* fails (non-zero exit, spawn error, timeout, missing output file) the call
\* still settles with a result: the request's own buffer, processed = false,
\* and a confidence strictly below the one a skipped preprocessing reports
\* for the same quality tier.
C23_FallbackOnToolFailure ==
    \A r \in DOMAIN jobs :
        (jobs[r].tool = "ffmpeg" /\ jobs[r].pc = "settled") =>
            /\ jobs[r].outcome.present
            /\ jobs[r].outcome.via \in ToolFailures =>
                  /\ ~jobs[r].outcome.processed
                  /\ jobs[r].outcome.data = r
                  /\ jobs[r].outcome.confidence
                         < skippedConfidence(quality.quality)

C23_Witness ==
    /\ entry = "tools"
    /\ jobs[1].tool = "ffmpeg" /\ jobs[1].pc = "settled"
    /\ jobs[1].outcome.via = "timeout"
    /\ jobs[2].tool = "ffmpeg" /\ jobs[2].pc = "settled"
    /\ jobs[2].outcome.via = "missing"
    /\ quality.quality = "poor"
    /\ jobs[1].outcome.confidence = Pct(45)

\* ---------------------------------------------------------------- C24
\* C24: once a call of preprocessAudio or of transcribeWithLocalWhisper has
\* settled, no temporary file written for that call exists any more.
C24_NoTempFileLeft ==
    \A r \in DOMAIN jobs :
        jobs[r].pc = "settled" => \A f \in files : f.by # r

\* ---------------------------------------------------------------- C25
\* C25: two requests in flight at the same time never use the same
\* temporary file path.
C25_DistinctTempPaths ==
    \A r1 \in DOMAIN jobs : \A r2 \in DOMAIN jobs :
        (/\ r1 # r2
         /\ jobs[r1].pc = "await" /\ jobs[r2].pc = "await"
         /\ jobs[r1].tool = jobs[r2].tool) =>
            /\ inputFileOf(jobs[r1].tool, jobs[r1].timestamp)
                   # inputFileOf(jobs[r2].tool, jobs[r2].timestamp)
            /\ outputFileOf(jobs[r1].tool, jobs[r1].timestamp)
                   # outputFileOf(jobs[r2].tool, jobs[r2].timestamp)

\* ---------------------------------------------------------------- C26
OfTier(q, tier) == [q EXCEPT !.quality = tier]

\* C26: with the transcript, the duration, the zero ratio and the entropy
\* held fixed, calculateConfidence on the good tier returns at least what it
\* returns on the poor tier.
C26_GoodAtLeastPoor ==
    (entry = "confidence" /\ applied.called) =>
        /\ applied.quality.quality = "good" =>
              applied.value >=
                  calculateConfidence(OfTier(applied.quality, "poor"),
                                      applied.transcript, applied.duration)
        /\ applied.quality.quality = "poor" =>
              calculateConfidence(OfTier(applied.quality, "good"),
                                  applied.transcript, applied.duration)
                  >= applied.value

C26_Witness ==
    /\ entry = "confidence" /\ applied.called
    /\ applied.quality.quality = "good"
    /\ applied.transcript = T_speech
    /\ applied.value >
           calculateConfidence(OfTier(applied.quality, "poor"),
                               applied.transcript, applied.duration)

\* ---------------------------------------------------------------- C27
OnlyWhitespace(s) == s # <<>> /\ \A i \in 1..Len(s) : s[i] \in Whitespace

\* C27: for a non-empty transcript that holds no word, only whitespace,
\* calculateConfidence returns exactly 0.1 whatever the quality is.
C27_BlankTranscriptIsTenth ==
    (/\ entry = "confidence" /\ applied.called
     /\ OnlyWhitespace(applied.transcript)) =>
        applied.value = Pct(10)

\* ---------------------------------------------------------------- C28
\* C28: applyCorrections is idempotent, a second pass over its own result
\* changes nothing.
C28_Idempotent ==
    (entry = "corrections" /\ Len(applied.passes) = 2) =>
        applied.passes[2] = applied.passes[1]

\* ---------------------------------------------------------------- C30
\* C30: on a buffer longer than 2048 bytes the analyser samples 2048 bytes
\* at a uniform stride, and the last sampled index lies within one stride of
\* the end of the buffer.
C30_SamplesSpanBuffer ==
    (/\ entry = "sampling" /\ applied.called
     /\ audioBuffer.size > 2048) =>
        /\ applied.count = 2048
        /\ (audioBuffer.size - 1) - applied.last <= applied.step

\* ---------------------------------------------------------------- C29
T_fashionCorrected == <<"the", " ", "quick", " ", "brown", " ", "AI", " ",
                        "tools", " ", "for", " ", "fashion">>

\* the first attempt of the general tier has answered the scenario's text
ScenarioHeard ==
    /\ entry = "transcribe"
    /\ audioBuffer \in ScenarioBuffers
    /\ CONFIG.confidenceThreshold = 60
    /\ \E i \in 1..Len(attempts) :
          /\ attempts[i].method = "gemini"
          /\ attempts[i].attempt = 1
          /\ attempts[i].success

\* the run has ended with that first answer, confidence in [0.6, 1.0]
ScenarioAccepted ==
    /\ pc = "returned"
    /\ result.method = "gemini"
    /\ result.attempts = [count |-> 1]
    /\ result.rawText = T_fashion
    /\ result.text = T_fashionCorrected
    /\ result.confidence >= Pct(60)
    /\ result.confidence <= Pct(100)

\* C29 as stated: on every 50 KB buffer with 1% zero bytes for which the
\* general tier answers "the quick brown eye tools for fashion", the
\* confidence is in [0.6, 1.0] and the first attempt is accepted.
C29_ScenarioAccepted == ScenarioHeard => ScenarioAccepted

\* C29, amended: the same when the entropy of the sampled bytes is above 30.
C29_ScenarioAcceptedHighEntropy ==
    (ScenarioHeard /\ Gt(quality.entropy, 30)) => ScenarioAccepted

C29_Witness ==
    /\ ScenarioHeard
    /\ audioBuffer = B_webm
    /\ pc = "returned"
    /\ result.text = T_fashionCorrected
    /\ result.confidence = 16565000

\* ---------------------------------------------------------------- C31
\* C31: for every error kind the handler's loop has seen, the retryable flag
\* on the thrown error and the retryable field of the HTTP error response
\* are both true exactly when the loop retries errors of that kind.
C31_RetryableConsistent ==
    (IsHandler /\ lastError # NoError) =>
        /\ lastRetryable <=> lastError \notin handlerNoRetry
        /\ (response.sent /\ response.error = lastError) =>
              (response.retryable <=> lastError \notin handlerNoRetry)

\* ---------------------------------------------------------------- C32
GeneralTierAllFailed ==
    /\ \E i \in 1..Len(attempts) : attempts[i].method = "gemini"
    /\ \A i \in 1..Len(attempts) :
          attempts[i].method = "gemini" => ~attempts[i].success

\* C32: a run in which every general-tier attempt failed, with the local
\* fallback enabled and available, has attempted the local tier by the time
\* it is past the gate, whether or not the fast tier ran before.
C32_LocalTierAfterGeneralFailure ==
    (/\ IsTranscribe
     /\ pc \in {"finish", "returned", "raised"}
     /\ GeneralTierAllFailed
     /\ CONFIG.useWhisperFallback /\ WHISPER_AVAILABLE) =>
        \E i \in 1..Len(calls) : calls[i].provider = "whisper"

\* ---------------------------------------------------------------- C33
GeneralCalls == Cardinality({i \in 1..Len(calls) : calls[i].provider = "gemini"})

\* the run is between a backoff sleep and the attempt the sleep leads to
AttemptPending == pc \in {"gemini", "h_loop"}

\* C33: a run sleeps at most maxRetries - 1 times, and only between two
\* general-tier attempts: once the tier has ended (last attempt, failure
\* that is not retried, accepted result) every sleep of the run has been
\* followed by another attempt.
C33_SleepOnlyBetweenAttempts ==
    (IsTranscribe \/ IsHandler) =>
        /\ Len(sleeps) <= maxRetries - 1
        /\ ~AttemptPending => Len(sleeps) = Max(GeneralCalls - 1, 0)
        /\ AttemptPending => Len(sleeps) = GeneralCalls

C33_Witness ==
    /\ IsTranscribe
    /\ pc = "raised"
    /\ GeneralCalls = maxRetries
    /\ sleeps = <<1000, 2000>>

\* ---------------------------------------------------------------- C34
CallsTo(provider) ==
    Cardinality({i \in 1..Len(calls) : calls[i].provider = provider})

RunEnded == pc \in {"returned", "raised"}

\* C34: every run of transcribe ends, by returning a result or by raising,
\* and makes at most 1 fast-tier call, maxRetries general-tier calls and
\* 1 local-tier call.
C34_Terminates ==
    /\ <>RunEnded
    /\ [](/\ CallsTo("groq") <= 1
          /\ CallsTo("gemini") <= maxRetries
          /\ CallsTo("whisper") <= 1)

C34_Witness ==
    /\ IsTranscribe
    /\ RunEnded
    /\ CallsTo("groq") = 1
    /\ CallsTo("gemini") = maxRetries
    /\ CallsTo("whisper") = 1

\* ---------------------------------------------------------------- C35
LocalTierSucceeded == IsTranscribe /\ whisperConfidence # 0

\* C35: under the default threshold 0.6 a local tier that ran and succeeded
\* has a confidence of 0.9, 0.8, 0.75 or 0.65 and its result is the result
\* of the run: the general-tier result is never kept.
C35_LocalResultReturned ==
    (LocalTierSucceeded /\ CONFIG.confidenceThreshold = 60) =>
        /\ whisperConfidence \in {Pct(90), Pct(80), Pct(75), Pct(65)}
        /\ pc \in {"finish", "returned"}
        /\ result.method = "whisper-local"
        /\ thrown = NoError

C35_Witness ==
    /\ LocalTierSucceeded
    /\ CONFIG.confidenceThreshold = 60
    /\ pc = "returned"
    /\ result.method = "whisper-local"
    /\ \E i \in 1..Len(attempts) :
          attempts[i].method = "gemini" /\ attempts[i].success

\* ---------------------------------------------------------------- C36
\* C36: whatever the options attempt and useFallbackPrompt are, the
\* promptType in the result of transcribeWithGemini names the prompt that
\* was sent.
C36_PromptTypeNamesPrompt ==
    (entry = "prompt" /\ applied.called) =>
        applied.promptType = applied.prompt

\* ------------------------------------------ app.js, the hold-to-speak button
MaxPresses == 3

Recording == {i \in 1..Len(recorders) : recorders[i] = "recording"}

\* the page has loaded: DOMContentLoaded has called preInitializeMicrophone,
\* which is waiting for the microphone
InitClient ==
    /\ entry = "client"
    /\ NoRequest
    /\ ToolsIdle
    /\ audioBuffer = B_clear
    /\ AppState = InitialAppState
    /\ recorders = <<>>
    /\ micHeld = FALSE
    /\ pendingStarts = 0
    /\ pendingPreInit = 1
    /\ timers = 0
    /\ presses = 0

\* startListening from `AppState.isListening = true` on, with the stream in
\* hand: new MediaRecorder(stream), .start(), startRealVisualizer(stream)
startRecording(state) ==
    [state EXCEPT !.isListening = TRUE,
                  !.mediaRecorder = Len(recorders) + 1,
                  !.audioContext = TRUE]

\* mousedown / touchstart on the mic button: startListening up to its await
Press ==
    /\ entry = "client" /\ ~micHeld /\ presses < MaxPresses
    /\ micHeld' = TRUE
    /\ presses' = presses + 1
    /\ IF AppState.isListening \/ AppState.isProcessing
       THEN UNCHANGED <<AppState, recorders, pendingStarts, pendingPreInit>>
       ELSE IF AppState.preInitializedStream
       THEN /\ AppState' = startRecording(
                   [AppState EXCEPT !.preInitializedStream = FALSE])
            /\ recorders' = Append(recorders, "recording")
            /\ pendingPreInit' = pendingPreInit + 1
            /\ UNCHANGED pendingStarts
       ELSE /\ pendingStarts' = pendingStarts + 1
            /\ UNCHANGED <<AppState, recorders, pendingPreInit>>
    /\ UNCHANGED <<requestVars, toolVars, timers>>

\* the getUserMedia awaited by a startListening resolves: the rest of
\* startListening runs
StartListeningResume ==
    /\ entry = "client" /\ pendingStarts > 0
    /\ pendingStarts' = pendingStarts - 1
    /\ AppState' = startRecording(AppState)
    /\ recorders' = Append(recorders, "recording")
    /\ UNCHANGED <<requestVars, toolVars, micHeld, pendingPreInit, timers,
                   presses>>

\* the getUserMedia awaited by a startListening rejects: catch, the UI is
\* reset
StartListeningDenied ==
    /\ entry = "client" /\ pendingStarts > 0
    /\ pendingStarts' = pendingStarts - 1
    /\ UNCHANGED <<requestVars, toolVars, AppState, recorders, micHeld,
                   pendingPreInit, timers, presses>>

\* the getUserMedia awaited by preInitializeMicrophone settles
PreInitializeResume ==
    /\ entry = "client" /\ pendingPreInit > 0
    /\ pendingPreInit' = pendingPreInit - 1
    /\ \E granted \in BOOLEAN :
          AppState' = IF granted
                      THEN [AppState EXCEPT !.preInitializedStream = TRUE]
                      ELSE AppState
    /\ UNCHANGED <<requestVars, toolVars, recorders, micHeld, pendingStarts,
                   timers, presses>>

\* stopListening
stopListening ==
    IF ~AppState.isListening
    THEN UNCHANGED <<AppState, recorders, timers>>
    ELSE /\ AppState' = [AppState EXCEPT !.isListening = FALSE,
                                         !.audioContext = FALSE,
                                         !.isProcessing = TRUE]
         /\ recorders' =
              IF AppState.mediaRecorder # 0
                 /\ recorders[AppState.mediaRecorder] # "inactive"
              THEN [recorders EXCEPT ![AppState.mediaRecorder] = "inactive"]
              ELSE recorders
         /\ timers' = timers + 1

\* mouseup / touchend / mouseleave with the button down
Release ==
    /\ entry = "client" /\ micHeld
    /\ micHeld' = FALSE
    /\ stopListening
    /\ UNCHANGED <<requestVars, toolVars, pendingStarts, pendingPreInit,
                   presses>>

\* the pointer leaves the button with the button up
MouseLeave ==
    /\ entry = "client" /\ ~micHeld
    /\ stopListening
    /\ UNCHANGED <<requestVars, toolVars, micHeld, pendingStarts,
                   pendingPreInit, presses>>

\* the setTimeout callback of stopListening has run to its end
ProcessingDone ==
    /\ entry = "client" /\ timers > 0
    /\ timers' = timers - 1
    /\ AppState' = [AppState EXCEPT !.isProcessing = FALSE]
    /\ UNCHANGED <<requestVars, toolVars, recorders, micHeld, pendingStarts,
                   pendingPreInit, presses>>

NextClient ==
    \/ Press \/ Release \/ MouseLeave
    \/ StartListeningResume \/ StartListeningDenied
    \/ PreInitializeResume \/ ProcessingDone

SpecClient == InitClient /\ [][NextClient]_vars

\* ---------------------------------------------------------------- C37
\* C37: whatever the timing of press and release, at most one MediaRecorder
\* is recording at a time, and with the mic button released no recorder is
\* recording.
C37_HoldToSpeakSafe ==
    entry = "client" =>
        /\ Cardinality(Recording) <= 1
        /\ ~micHeld => Recording = {}

====
